---- MODULE Spec2Model ----
(***************************************************************************)
(* A model of the GraphQL client code generator: the tokenizer             *)
(* (src/src/lexer.rs), the recursive-descent parser (src/src/parser.rs)    *)
(* and the schema-bound code generator (src/src/codegen.rs).               *)
(*                                                                         *)
(* The three stages are modelled by three specifications over one set of   *)
(* variables: SpecLex, SpecParse and SpecGen.  Each stage's functions are  *)
(* operators that keep the names of the source.                            *)
(***************************************************************************)
EXTENDS Naturals, Integers, Sequences, FiniteSets, TLC

VARIABLES
    \* lexer.rs, lex
    src,        \* the source text, a sequence of characters
    src_it,     \* SrcIt: i (characters consumed), column, line
    tok,        \* Tok: tok_slice (offset in src where it starts), tok_len
    ltokens,    \* the tokens pushed so far
    lresult,    \* how lex ended: "none" (running), "Ok", "Err", "panic"
    lerror,     \* the lexer::Error returned when lresult = "Err"
    \* parser.rs, parse
    tokens,     \* Parser.tokens: the token sequence handed to parse
    cursor,     \* Parser.i: index of the next token to read (0-based)
    module,     \* Parser.module: the GraphQL document built so far
    presult,    \* how parse ended: "none" (running), "Ok", "Err", "panic"
    perror,     \* the parser::Error returned when presult = "Err"
    \* codegen.rs, gen
    schema,     \* the schema::Schema handed to gen
    document,   \* the parser::GraphQL handed to gen
    codegen,    \* Codegen: src (the pieces appended so far) and indent
    gphase,     \* the loop gen is in: "fragments", "queries", "mutations"
    gindex,     \* how many elements of that loop's list are done
    gresult,    \* how gen ended: "none" (running), "Ok", "panic"
    outs,       \* the texts returned by the runs of gen finished so far
    \* schema.rs, from
    json,       \* the introspection document handed to from, as a JSON value
    types_result, \* the HashMap types_result built so far
    sindex,     \* how many elements of `types` the loop of from has done
    sresult,    \* how from ended: "none" (running), "Ok", "Err", "panic"
    \* file.rs, find_graphql_files
    fs,         \* the file system: the output artifact and the directory
    fstack,     \* the calls of visit_dir in progress, innermost last
    files,      \* the Vec<File> `result`
    fresult     \* how find_graphql_files ended, and its overall flag

lexvars == <<src, src_it, tok, ltokens, lresult, lerror>>
parsevars == <<tokens, cursor, module, presult, perror>>
genvars == <<schema, document, codegen, gphase, gindex, gresult, outs>>
loadvars == <<json, types_result, sindex, sresult>>
filevars == <<fs, fstack, files, fresult>>
vars == <<lexvars, parsevars, genvars, loadvars, filevars>>

(***************************************************************************)
(* Bounds of the model.                                                    *)
(***************************************************************************)
MaxToks == 6
MaxSrc == 4

Min(a, b) == IF a < b THEN a ELSE b

(***************************************************************************)
(* lexer.rs: TokenKind and Token.                                          *)
(***************************************************************************)
TokenKind ==
    { "FragmentKeyword", "QueryKeyword", "MutationKeyword", "OnKeyword",
      "StringKeyword", "IntKeyword", "BoolKeyword", "Spread", "OpenParen",
      "CloseParen", "OpenSquare", "CloseSquare", "Exclamation",
      "OpenBracket", "CloseBracket", "Colon", "Int", "String",
      "Identifier", "Variable" }

Token(kind, val, column, line) ==
    [kind |-> kind, val |-> val, column |-> column, line |-> line]

NoTok == Token("None", "", 0, 0)

(***************************************************************************)
(* parser.rs: the AST.                                                     *)
(***************************************************************************)
TypeString == [t |-> "String"]
TypeInt == [t |-> "Int"]
TypeFloat == [t |-> "Float"]
TypeBool == [t |-> "Bool"]
TypeInput(name) == [t |-> "Input", name |-> name]
TypeArray(elem) == [t |-> "Array", of |-> elem]
TypeNonNull(elem) == [t |-> "NonNull", of |-> elem]

ValueInt(v) == [v |-> "Int", val |-> v]
ValueString(v) == [v |-> "String", val |-> v]
ValueBool(v) == [v |-> "Bool", val |-> v]
ValueVariable(v) == [v |-> "Variable", val |-> v]

Argument(name, value) == [name |-> name, value |-> value]
ArgumentDef(name, kind) == [name |-> name, kind |-> kind]
PlainField(name, args, fields) ==
    [f |-> "PlainField", name |-> name, args |-> args, fields |-> fields]
InlineFragment(on, fields) ==
    [f |-> "InlineFragment", on |-> on, fields |-> fields]
FragmentSpread(name) == [f |-> "Fragment", name |-> name]
Query(name, args, fields) == [name |-> name, args |-> args, fields |-> fields]
Mutation(name, args, fields) ==
    [name |-> name, args |-> args, fields |-> fields]
Fragment(name, args, on, fields) ==
    [name |-> name, args |-> args, on |-> on, fields |-> fields]
GraphQL(fragments, queries, mutations) ==
    [fragments |-> fragments, queries |-> queries, mutations |-> mutations]

EmptyModule == GraphQL(<<>>, <<>>, <<>>)

(***************************************************************************)
(* parser.rs: ErrorKind and Error.                                         *)
(***************************************************************************)
SyntaxError == [kind |-> "SyntaxError", what |-> ""]
Expecting(what) == [kind |-> "Expecting", what |-> what]
NoError == [kind |-> "None", what |-> "", column |-> 0, line |-> 0]

\* The code generator's variables while another stage runs.
GenIdle ==
    /\ schema = <<>>
    /\ document = EmptyModule
    /\ codegen = [src |-> <<>>, indent |-> 0, st |-> "ok"]
    /\ gphase = "idle"
    /\ gindex = 0
    /\ gresult = "idle"
    /\ outs = <<>>

\* The variables of schema::from while another stage runs.
LoadIdle ==
    /\ json = <<>>
    /\ types_result = <<>>
    /\ sindex = 0
    /\ sresult = "idle"

\* The variables of find_graphql_files while another stage runs.
FileIdle ==
    /\ fs = <<>>
    /\ fstack = <<>>
    /\ files = <<>>
    /\ fresult = [st |-> "idle", modified |-> FALSE]

\* The parser's variables while another stage runs.
ParseIdle ==
    /\ tokens = <<>>
    /\ cursor = 0
    /\ module = EmptyModule
    /\ presult = "idle"
    /\ perror = NoError

(***************************************************************************)
(* lexer.rs: characters and text.  A text is a sequence of one-character   *)
(* strings; Str gives the string a slice of the source stands for.         *)
(***************************************************************************)
Digits == {"0", "1", "2", "3", "4", "5", "6", "7", "8", "9"}
Letters ==
    { "a", "b", "c", "d", "e", "f", "g", "h", "i", "j", "k", "l", "m", "n",
      "o", "p", "q", "r", "s", "t", "u", "v", "w", "x", "y", "z",
      "A", "B", "C", "D", "E", "F", "G", "H", "I", "J", "K", "L", "M", "N",
      "O", "P", "Q", "R", "S", "T", "U", "V", "W", "X", "Y", "Z" }
Skipped == {" ", ",", "\r", "\t"}
NameStart == Letters \cup {"_"}
NameChar == Letters \cup Digits \cup {"_"}

RECURSIVE Str(_)
Str(chars) == IF chars = <<>> THEN "" ELSE Head(chars) \o Str(Tail(chars))

DigitValue(c) ==
    CASE c = "0" -> 0 [] c = "1" -> 1 [] c = "2" -> 2 [] c = "3" -> 3
      [] c = "4" -> 4 [] c = "5" -> 5 [] c = "6" -> 6 [] c = "7" -> 7
      [] c = "8" -> 8 [] c = "9" -> 9

RECURSIVE Decimal(_)
\* str::parse::<i32> of a run of digits, before the range check.
Decimal(chars) ==
    IF chars = <<>> THEN 0
    ELSE 10 * Decimal(SubSeq(chars, 1, Len(chars) - 1))
         + DigitValue(chars[Len(chars)])

I32Max == 2147483647

\* The punctuation arms of lex.
PunctKind(c) ==
    CASE c = ":" -> "Colon"
      [] c = "{" -> "OpenBracket"
      [] c = "}" -> "CloseBracket"
      [] c = "(" -> "OpenParen"
      [] c = ")" -> "CloseParen"
      [] c = "[" -> "OpenSquare"
      [] c = "]" -> "CloseSquare"
      [] c = "!" -> "Exclamation"
Punct == {":", "{", "}", "(", ")", "[", "]", "!"}

\* The keyword match of the identifier arm of lex.
KeywordKind(str) ==
    CASE str = "fragment" -> "FragmentKeyword"
      [] str = "query" -> "QueryKeyword"
      [] str = "mutation" -> "MutationKeyword"
      [] str = "on" -> "OnKeyword"
      [] str = "String" -> "StringKeyword"
      [] str = "Int" -> "IntKeyword"
      [] str = "Bool" -> "BoolKeyword"
      [] OTHER -> "Identifier"

(***************************************************************************)
(* lexer.rs: SrcIt and Tok.                                                *)
(***************************************************************************)
\* SrcIt::current: the next character, not consumed; "" stands for None.
SrcIt_current(text, it) == IF it.i < Len(text) THEN text[it.i + 1] ELSE ""

\* SrcIt::next: the column counts every call, also the one that returns None.
SrcIt_next(text, it) ==
    [it EXCEPT !.column = @ + 1, !.i = Min(@ + 1, Len(text))]

\* SrcIt::error
SrcIt_error(it, kind) ==
    [kind |-> kind.kind, what |-> kind.what,
     column |-> it.column, line |-> it.line]

Unexpected(c) == [kind |-> "Unexpected", what |-> c]

\* Tok::tok: the first tok_len characters of tok_slice.
Tok_tok(text, t) == SubSeq(text, t.tok_slice + 1, t.tok_slice + t.tok_len)

\* Tok::reset_tok(src_it.i.as_str())
reset_tok(it) == [tok_slice |-> it.i, tok_len |-> 1]

\* add_token: the token takes the iterator's column and line as they stand.
add_token(toks, it, kind, val) ==
    Append(toks, Token(kind, val, it.column, it.line))

RECURSIVE scan(_, _, _, _)
\* `while let Some(c) = src_it.current() { match c { <class> =>
\* tok.advance(&mut src_it), _ => break } }`
scan(text, it, t, class) ==
    IF SrcIt_current(text, it) \in class
    THEN scan(text, SrcIt_next(text, it),
              [t EXCEPT !.tok_len = @ + 1], class)
    ELSE [it |-> it, tok |-> t]

\* The two `src_it.next()` of the spread arm: the iterator after them, and
\* whether both found a dot (the loop returns at the first that does not).
spread_dots(text, it) ==
    LET it1 == SrcIt_next(text, it)
        it2 == SrcIt_next(text, it1)
    IN  IF SrcIt_current(text, it) # "." THEN [it |-> it1, found |-> FALSE]
        ELSE IF SrcIt_current(text, it1) # "." THEN [it |-> it2, found |-> FALSE]
        ELSE [it |-> it2, found |-> TRUE]

(***************************************************************************)
(* The source texts given to lex: every text of at most MaxSrc characters  *)
(* over an alphabet with a character of each class the lexer tells apart,  *)
(* and some longer samples with the keywords.                              *)
(***************************************************************************)
Alphabet == {" ", "\n", ".", "{", "1", "$", "o", "n", "#"}

RECURSIVE Texts(_)
Texts(n) ==
    IF n = 0 THEN {<<>>}
    ELSE LET shorter == Texts(n - 1)
         IN  shorter \cup { Append(t, c) : t \in { u \in shorter :
                                                   Len(u) = n - 1 },
                                           c \in Alphabet }

Samples ==
    { <<"q", "u", "e", "r", "y", " ", "Q", " ", "{", " ", "a", " ", "}">>,
      <<"f", "r", "a", "g", "m", "e", "n", "t", " ", "F", " ", "o", "n", " ",
        "T", "!">>,
      <<"m", "u", "t", "a", "t", "i", "o", "n", "(", "$", "i", "d", ":",
        "I", "n", "t", ")">>,
      <<"[", "S", "t", "r", "i", "n", "g", "]", " ", "B", "o", "o", "l">>,
      <<"a", "\n", ".", ".", ".", "b", "\n", ".", "x">>,
      <<"a", "(", "b", ":", "t", "r", "u", "e", ")">>,
      <<"a", "(", "b", ":", "f", "a", "l", "s", "e", ",", "c", ":", "1",
        "2", ")">> }

LexInputs == Texts(MaxSrc) \cup Samples

(***************************************************************************)
(* SpecLex: lex as a state machine, one step per iteration of its          *)
(* `while let Some(c) = src_it.next()` loop, one action per match arm.     *)
(***************************************************************************)
LexIdle ==
    /\ src = <<>>
    /\ src_it = [i |-> 0, column |-> 0, line |-> 0]
    /\ tok = [tok_slice |-> 0, tok_len |-> 1]
    /\ ltokens = <<>>
    /\ lresult = "idle"
    /\ lerror = NoError

\* The character the iteration's src_it.next() returns.
LexChar == src[src_it.i + 1]
\* The iterator after that call.
LexIt == SrcIt_next(src, src_it)
LexRunning == lresult = "none" /\ src_it.i < Len(src)

\* The end of an iteration that returned no error.
LexContinue(it, toks) ==
    /\ src_it' = it
    /\ ltokens' = toks
    /\ tok' = reset_tok(it)
    /\ UNCHANGED <<src, lresult, lerror>>

\* An iteration that returns Err.
LexFail(it, kind) ==
    /\ src_it' = it
    /\ lresult' = "Err"
    /\ lerror' = SrcIt_error(it, kind)
    /\ UNCHANGED <<src, tok, ltokens>>

\* ' ' | ',' | '\r' | '\t' => {}
LexSkip ==
    /\ LexRunning
    /\ LexChar \in Skipped
    /\ LexContinue(LexIt, ltokens)
    /\ UNCHANGED <<parsevars, genvars, loadvars, filevars>>

\* '\n' => src_it.line += 1
LexNewline ==
    /\ LexRunning
    /\ LexChar = "\n"
    /\ LexContinue([LexIt EXCEPT !.line = @ + 1], ltokens)
    /\ UNCHANGED <<parsevars, genvars, loadvars, filevars>>

\* ':' .. '!' => add_token
LexPunct ==
    /\ LexRunning
    /\ LexChar \in Punct
    /\ LexContinue(LexIt, add_token(ltokens, LexIt, PunctKind(LexChar), ""))
    /\ UNCHANGED <<parsevars, genvars, loadvars, filevars>>

\* '.' => two more dots, then add_token(Spread); Err(Expecting("..."))
\* at the first character that is not a dot.
LexSpread ==
    /\ LexRunning
    /\ LexChar = "."
    /\ LET d == spread_dots(src, LexIt)
       IN  IF d.found
           THEN LexContinue(d.it, add_token(ltokens, d.it, "Spread", ""))
           ELSE LexFail(d.it, Expecting("..."))
    /\ UNCHANGED <<parsevars, genvars, loadvars, filevars>>

\* '0'..='9' => a run of digits, parsed as i32 (unwrap panics out of range).
LexNumber ==
    /\ LexRunning
    /\ LexChar \in Digits
    /\ LET s == scan(src, LexIt, tok, Digits)
           value == Decimal(Tok_tok(src, s.tok))
       IN  IF value > I32Max
           THEN /\ lresult' = "panic"
                /\ src_it' = s.it
                /\ tok' = s.tok
                /\ UNCHANGED <<src, ltokens, lerror>>
           ELSE LexContinue(s.it, add_token(ltokens, s.it, "Int", value))
    /\ UNCHANGED <<parsevars, genvars, loadvars, filevars>>

\* '$' => a run of name characters; the name is the text after the `$`.
LexVariable ==
    /\ LexRunning
    /\ LexChar = "$"
    /\ LET s == scan(src, LexIt, tok, NameChar)
       IN  LexContinue(s.it, add_token(ltokens, s.it, "Variable",
                                       Str(Tail(Tok_tok(src, s.tok)))))
    /\ UNCHANGED <<parsevars, genvars, loadvars, filevars>>

\* 'A'..='Z' | 'a'..='z' | '_' => a run of name characters, a keyword or an
\* identifier.
LexIdentifier ==
    /\ LexRunning
    /\ LexChar \in NameStart
    /\ LET s == scan(src, LexIt, tok, NameChar)
           str == Str(Tok_tok(src, s.tok))
           kind == KeywordKind(str)
       IN  LexContinue(s.it, add_token(ltokens, s.it, kind,
                                       IF kind = "Identifier" THEN str ELSE ""))
    /\ UNCHANGED <<parsevars, genvars, loadvars, filevars>>

\* _ => Err(Unexpected(c))
LexUnexpected ==
    /\ LexRunning
    /\ LexChar \notin Skipped \cup {"\n", ".", "$"} \cup Punct \cup Digits
                      \cup NameStart
    /\ LexFail(LexIt, Unexpected(LexChar))
    /\ UNCHANGED <<parsevars, genvars, loadvars, filevars>>

\* src_it.next() returns None: Ok(tokens).
LexReturn ==
    /\ lresult = "none"
    /\ src_it.i >= Len(src)
    /\ src_it' = LexIt
    /\ lresult' = "Ok"
    /\ UNCHANGED <<src, tok, ltokens, lerror, parsevars, genvars,
                   loadvars, filevars>>

InitLex ==
    /\ src \in LexInputs
    /\ src_it = [i |-> 0, column |-> 0, line |-> 0]
    /\ tok = [tok_slice |-> 0, tok_len |-> 1]
    /\ ltokens = <<>>
    /\ lresult = "none"
    /\ lerror = NoError
    /\ ParseIdle
    /\ GenIdle
    /\ LoadIdle
    /\ FileIdle

NextLex ==
    \/ LexSkip
    \/ LexNewline
    \/ LexPunct
    \/ LexSpread
    \/ LexNumber
    \/ LexVariable
    \/ LexIdentifier
    \/ LexUnexpected
    \/ LexReturn

SpecLex == InitLex /\ [][NextLex]_vars

(***************************************************************************)
(* Claims about the lexer, checked under SpecLex.                          *)
(***************************************************************************)
\* The number of newlines among the first n characters of a text.
NewlinesBefore(text, n) == Cardinality({ j \in 1..n : text[j] = "\n" })

\* The 0-based column of the character at offset n in its line.
ColumnOf(text, n) ==
    LET nl == { j \in 1..n : text[j] = "\n" }
    IN  IF nl = {} THEN n ELSE n - (CHOOSE j \in nl : \A h \in nl : h <= j)

\* C10: a `.` that is not followed by two more `.` makes lex fail with
\* Expecting("...") at the position of the `.` that starts the malformed
\* spread (1-based line, 0-based column), and lex returns no tokens.
C10_SpreadErrorAtDot ==
    (lresult = "Err" /\ lerror.kind = "Expecting") =>
        /\ lerror.what = "..."
        /\ lerror.line = 1 + NewlinesBefore(src, tok.tok_slice)
        /\ lerror.column = ColumnOf(src, tok.tok_slice)

\* C11: every token lex produces carries the 1-based line and the 0-based
\* column of its position: the token added in an iteration that started at a
\* character has a line of one plus the number of newlines before that
\* character, and column 0 when that character is the first of its line.
C11_TokenPosition ==
    [][Len(ltokens') > Len(ltokens) =>
         LET t == ltokens'[Len(ltokens')]
         IN  /\ t.line = 1 + NewlinesBefore(src, src_it.i)
             /\ ColumnOf(src, src_it.i) = 0 => t.column = 0]_vars

(***************************************************************************)
(* The state of a Parser inside one call of parse_toplevel:                *)
(*   i    the cursor;                                                      *)
(*   st   "ok" (running), "err" (a Result::Err is being returned by `?`)   *)
(*        or "panic" (an index past the end of tokens was read);           *)
(*   err  the Error being returned;                                        *)
(*   tok  the token the last call of next or current returned;             *)
(*   vals the values the parse functions called so far have returned and   *)
(*        their caller has not yet used, the last one last.                *)
(* Every parse function maps such a state to the state after it; a state   *)
(* that is not "ok" passes through unchanged, as `?` and unwinding do.     *)
(***************************************************************************)
PState(i) == [i |-> i, st |-> "ok", err |-> NoError, tok |-> NoTok,
              vals |-> <<>>]
Panic(p) == [p EXCEPT !.st = "panic"]
Top(p) == p.vals[Len(p.vals)]
Pop(p) == [p EXCEPT !.vals = SubSeq(@, 1, Len(@) - 1)]
Push(p, v) == IF p.st # "ok" THEN p ELSE [p EXCEPT !.vals = Append(@, v)]

\* Parser::next: advance the cursor and return the token it stood on.
next(toks, p) ==
    IF p.st # "ok" THEN p
    ELSE IF p.i < Len(toks)
    THEN [p EXCEPT !.i = p.i + 1, !.tok = toks[p.i + 1]]
    ELSE [p EXCEPT !.i = p.i + 1, !.st = "panic"]

\* Parser::current: the token at the cursor, not consumed.
current(toks, p) ==
    IF p.st # "ok" THEN p
    ELSE IF p.i < Len(toks) THEN [p EXCEPT !.tok = toks[p.i + 1]]
    ELSE Panic(p)

\* Parser::error: an Error at the token at min(i, len - 1).
error(toks, p, kind) ==
    IF Len(toks) = 0
    THEN Panic(p)
    ELSE [p EXCEPT !.st = "err",
                   !.err = [kind |-> kind.kind, what |-> kind.what,
                            column |-> toks[Min(p.i, Len(toks) - 1) + 1].column,
                            line |-> toks[Min(p.i, Len(toks) - 1) + 1].line]]

\* Parser::expect, after its self.next().
expect_got(toks, r, kind, expecting) ==
    IF r.st # "ok" THEN r
    ELSE IF r.tok.kind # kind THEN error(toks, r, Expecting(expecting))
    ELSE r

\* Parser::expect: consume one token; Err unless it is of the given kind.
expect(toks, p, kind, expecting) ==
    expect_got(toks, next(toks, p), kind, expecting)

\* A Result that is dropped: an Err is discarded, a panic still unwinds.
dropped(q) == IF q.st = "err" THEN [q EXCEPT !.st = "ok", !.err = NoError] ELSE q

\* A statement `self.expect(..);` without `?`: the token is consumed and
\* the Result dropped.
expect_ignored(toks, p, kind, expecting) ==
    IF p.st # "ok" THEN p ELSE dropped(expect(toks, p, kind, expecting))

\* Parser::parse_name, after its self.next().
parse_name_got(toks, r) ==
    IF r.st # "ok" THEN r
    ELSE IF r.tok.kind = "Identifier" THEN Push(r, r.tok.val)
    ELSE error(toks, r, Expecting("identifier"))

\* Parser::parse_name
parse_name(toks, p) == parse_name_got(toks, next(toks, p))

RECURSIVE parse_type(_, _)

\* Ok(Type::Array(Box::new(elem))), after parse_type()? and expect("]")?.
parse_type_array(q) ==
    IF q.st # "ok" THEN q ELSE Push(Pop(q), TypeArray(Top(q)))

\* Parser::parse_type: the match on self.next().kind.
parse_type_got(toks, r) ==
    IF r.st # "ok" THEN r
    ELSE CASE r.tok.kind = "Identifier" -> Push(r, TypeInput(r.tok.val))
           [] r.tok.kind = "StringKeyword" -> Push(r, TypeString)
           [] r.tok.kind = "IntKeyword" -> Push(r, TypeInt)
           [] r.tok.kind = "BoolKeyword" -> Push(r, TypeBool)
           [] r.tok.kind = "OpenSquare" ->
                parse_type_array(
                    expect(toks, parse_type(toks, r), "CloseSquare", "]"))
           [] OTHER -> error(toks, r, Expecting("type"))

\* Parser::parse_type: `if self.current().kind == Exclamation`.
parse_type_nonnull(toks, c) ==
    IF c.st # "ok" THEN c
    ELSE IF c.tok.kind = "Exclamation"
    THEN Push(Pop(next(toks, c)), TypeNonNull(Top(c)))
    ELSE c

\* Parser::parse_type
parse_type(toks, p) ==
    parse_type_nonnull(toks, current(toks, parse_type_got(toks, next(toks, p))))

\* Parser::parse_value, after its self.next().
parse_value_got(toks, r) ==
    IF r.st # "ok" THEN r
    ELSE CASE r.tok.kind = "Variable" -> Push(r, ValueVariable(r.tok.val))
           [] r.tok.kind = "Int" -> Push(r, ValueInt(r.tok.val))
           [] r.tok.kind = "String" -> Push(r, ValueString(r.tok.val))
           [] OTHER -> error(toks, r, Expecting("Value"))

\* Parser::parse_value
parse_value(toks, p) == parse_value_got(toks, next(toks, p))

\* The value of the closures handed to parse_named_list: ArgumentDef{name,
\* kind} (variable) or Argument{name, value}.
named_argument(q, variable, name) ==
    IF q.st # "ok" THEN q
    ELSE IF variable THEN Push(Pop(q), ArgumentDef(name, Top(q)))
    ELSE Push(Pop(q), Argument(name, Top(q)))

\* The closures handed to parse_named_list by parse_arguments_def
\* (variable = TRUE) and by parse_arguments (variable = FALSE).
parse_named(toks, p, variable, name) ==
    named_argument(IF variable THEN parse_type(toks, p) ELSE parse_value(toks, p),
          variable, name)

RECURSIVE parse_named_list_loop(_, _, _, _)

\* args.push(parse(self, name)?), and the loop goes on.
parse_named_list_push(toks, a, variable, args) ==
    IF a.st # "ok" THEN a
    ELSE parse_named_list_loop(toks, Pop(a), variable, Append(args, Top(a)))

\* The match on self.next().kind in the loop of parse_named_list.
parse_named_list_got(toks, r, variable, args) ==
    IF r.st # "ok" THEN r
    ELSE IF \/ (r.tok.kind = "Variable" /\ variable)
            \/ (r.tok.kind = "Identifier" /\ ~variable)
    THEN parse_named_list_push(toks,
             parse_named(toks, expect(toks, r, "Colon", ":"), variable,
                         r.tok.val),
             variable, args)
    ELSE IF r.tok.kind = "CloseParen" THEN Push(r, args)
    ELSE error(toks, r, Expecting("identifier"))

\* The `loop { match self.next().kind .. }` of parse_named_list.
parse_named_list_loop(toks, p, variable, args) ==
    parse_named_list_got(toks, next(toks, p), variable, args)

\* Parser::parse_named_list: the match on self.current().kind.
parse_named_list_peek(toks, c, variable) ==
    IF c.st # "ok" THEN c
    ELSE IF c.tok.kind = "OpenBracket" THEN Push(c, <<>>)
    ELSE IF c.tok.kind \in {"Identifier", "Spread", "CloseBracket"} /\ ~variable
    THEN Push(c, <<>>)
    ELSE IF c.tok.kind = "OpenParen"
    THEN parse_named_list_loop(toks, next(toks, c), variable, <<>>)
    ELSE error(toks, c, Expecting("{ or ("))

\* Parser::parse_named_list
parse_named_list(toks, p, variable) ==
    parse_named_list_peek(toks, current(toks, p), variable)

\* Parser::parse_arguments
parse_arguments(toks, p) == parse_named_list(toks, p, FALSE)

\* Parser::parse_arguments_def
parse_arguments_def(toks, p) == parse_named_list(toks, p, TRUE)

RECURSIVE parse_fields(_, _)
RECURSIVE parse_fields_loop(_, _, _)
RECURSIVE parse_field(_, _)
RECURSIVE parse_spread(_, _)
RECURSIVE parse_optional_fields(_, _)
RECURSIVE parse_plain_field(_, _, _)

\* Ok(Field::InlineFragment(InlineFragment{on, fields}))
inline_fragment(q) ==
    IF q.st # "ok" THEN q
    ELSE Push(Pop(Pop(q)), InlineFragment(Top(Pop(q)), Top(q)))

\* Parser::parse_spread: the match on self.next().kind.
parse_spread_got(toks, r) ==
    IF r.st # "ok" THEN r
    ELSE IF r.tok.kind = "Identifier" THEN Push(r, FragmentSpread(r.tok.val))
    ELSE IF r.tok.kind = "OnKeyword"
    THEN inline_fragment(parse_fields(toks, parse_type(toks, r)))
    ELSE error(toks, r, Expecting("inline fragment or fragment"))

\* Parser::parse_spread
parse_spread(toks, p) == parse_spread_got(toks, next(toks, p))

\* Parser::parse_optional_fields: the match on self.current().kind.
parse_optional_fields_peek(toks, c) ==
    IF c.st # "ok" THEN c
    ELSE IF c.tok.kind \in {"Identifier", "CloseBracket", "Spread"}
    THEN Push(c, <<>>)
    ELSE IF c.tok.kind = "OpenBracket" THEN parse_fields(toks, c)
    ELSE error(toks, c, Expecting("{ or \n"))

\* parse_optional_fields with self.next() for self.current(): the token
\* it decides on is consumed.
parse_optional_fields_taken(toks, p) ==
    parse_optional_fields_peek(toks, next(toks, p))

\* Parser::parse_optional_fields
parse_optional_fields(toks, p) ==
    parse_optional_fields_peek(toks, current(toks, p))

\* fields.push(self.parse_field()?), and the loop goes on.
parse_fields_push(toks, r, fields) ==
    IF r.st # "ok" THEN r
    ELSE parse_fields_loop(toks, Pop(r), Append(fields, Top(r)))

\* Parser::parse_fields: `while self.current().kind != CloseBracket`.
parse_fields_peek(toks, c, fields) ==
    IF c.st # "ok" THEN c
    ELSE IF c.tok.kind # "CloseBracket"
    THEN parse_fields_push(toks, parse_field(toks, c), fields)
    ELSE Push(next(toks, c), fields)

\* The `while self.current().kind != CloseBracket { .. }; self.next();` of
\* parse_fields.
parse_fields_loop(toks, p, fields) ==
    parse_fields_peek(toks, current(toks, p), fields)

\* Parser::parse_fields.  The Result of expect is dropped (no `?`).
parse_fields(toks, p) ==
    parse_fields_loop(toks, expect_ignored(toks, p, "OpenBracket", "{"), <<>>)

\* Parser::parse_field: the match on self.next().kind.
parse_field_got(toks, r) ==
    IF r.st # "ok" THEN r
    ELSE IF r.tok.kind = "Identifier"
    THEN parse_plain_field(toks, r, r.tok.val)
    ELSE IF r.tok.kind = "Spread" THEN parse_spread(toks, r)
    ELSE error(toks, r, Expecting("field or spread"))

\* Parser::parse_field
parse_field(toks, p) == parse_field_got(toks, next(toks, p))

\* Ok(PlainField{ name, args, fields })
plain_field(q, name) ==
    IF q.st # "ok" THEN q
    ELSE Push(Pop(Pop(q)), PlainField(name, Top(Pop(q)), Top(q)))

\* Parser::parse_plain_field
parse_plain_field(toks, p, name) ==
    plain_field(parse_optional_fields(toks, parse_arguments(toks, p)), name)

\* Ok(self.module.queries.push(Query{ name, args, fields }))
push_query(q, m) ==
    IF q.st # "ok" THEN q
    ELSE [q EXCEPT !.vals = <<[m EXCEPT !.queries =
            Append(@, Query(q.vals[1], q.vals[2], q.vals[3]))]>>]

\* Parser::parse_query, after parse_toplevel consumed the keyword.
parse_query(toks, p, m) ==
    push_query(parse_fields(toks, parse_arguments_def(toks,
                   parse_name(toks, p))), m)

\* Ok(self.module.mutations.push(Mutation{ name, args, fields }))
push_mutation(q, m) ==
    IF q.st # "ok" THEN q
    ELSE [q EXCEPT !.vals = <<[m EXCEPT !.mutations =
            Append(@, Mutation(q.vals[1], q.vals[2], q.vals[3]))]>>]

\* Parser::parse_mutation
parse_mutation(toks, p, m) ==
    push_mutation(parse_optional_fields(toks, parse_arguments_def(toks,
                      parse_name(toks, p))), m)

\* Ok(self.module.fragments.push(Fragment{name, on, args, fields}))
push_fragment(q, m) ==
    IF q.st # "ok" THEN q
    ELSE [q EXCEPT !.vals = <<[m EXCEPT !.fragments =
            Append(@, Fragment(q.vals[1], q.vals[3], q.vals[2], q.vals[4]))]>>]

\* Parser::parse_fragment.  The Result of expect(OnKeyword) is dropped.
parse_fragment(toks, p, m) ==
    push_fragment(
        parse_fields(toks, parse_arguments_def(toks, parse_type(toks,
            expect_ignored(toks, parse_name(toks, p), "OnKeyword",
                           "Expecting on $type")))), m)

\* Parser::parse_toplevel: the match on self.next().kind.
parse_toplevel_got(toks, r, m) ==
    IF r.st # "ok" THEN r
    ELSE CASE r.tok.kind = "MutationKeyword" -> parse_mutation(toks, r, m)
           [] r.tok.kind = "QueryKeyword" -> parse_query(toks, r, m)
           [] r.tok.kind = "FragmentKeyword" -> parse_fragment(toks, r, m)
           [] OTHER -> error(toks, r, Expecting(
                "Top level consists only of query,mutation or fragment"))

\* Parser::parse_toplevel: one definition of the document; the state after
\* it holds the module as its only value.
parse_toplevel(toks, p, m) == parse_toplevel_got(toks, next(toks, p), m)

\* Mutant of parse_more: the loop stops one token early.
parse_more_early(toks, i) == i + 1 < Len(toks)

\* The loop condition of parse: `parser.i < parser.tokens.len()`.
parse_more(toks, i) == i < Len(toks)

RECURSIVE parse_loop(_, _, _)

\* parser.parse_toplevel()?, and the loop goes on with the module.
parse_loop_next(toks, r) ==
    IF r.st # "ok" THEN r ELSE parse_loop(toks, PState(r.i), Top(r))

\* The `while parser.i < parser.tokens.len()` loop of parse, run to its end.
parse_loop(toks, p, m) ==
    IF parse_more(toks, p.i)
    THEN parse_loop_next(toks, parse_toplevel(toks, p, m))
    ELSE Push(p, m)

\* parse: the state when it ends: Ok(module) with the module as its value,
\* Err(error) or a panic.
parse(toks) == parse_loop(toks, PState(0), EmptyModule)

(***************************************************************************)
(* The token sequences given to parse.  A token's text is irrelevant to    *)
(* the parser's control flow, so each kind has one representative; the     *)
(* token at index n stands at column n of line 0.                          *)
(***************************************************************************)
ValOf(kind) ==
    CASE kind = "Identifier" -> "a"
      [] kind = "Variable" -> "v"
      [] kind = "String" -> "s"
      [] kind = "Int" -> 1
      [] OTHER -> ""

MkTokens(kinds) ==
    [n \in 1..Len(kinds) |-> Token(kinds[n], ValOf(kinds[n]), n, 0)]

RECURSIVE KindSeqs(_)
\* The kind sequences of length n no proper prefix of which parse rejects
\* with an Err: parse reads left to right and stops at the first Err, so a
\* longer sequence would end in the same Err.
KindSeqs(n) ==
    IF n = 0 THEN {<<>>}
    ELSE { Append(s, k) :
             s \in { t \in KindSeqs(n - 1) : parse(MkTokens(t)).st # "err" },
             k \in TokenKind }

\* Longer documents: `query a { a(a: 1) a { a } ...a }`, and
\* `query a { a() : }`, whose field has a `:` after its arguments.
ParseSamples ==
    { <<"QueryKeyword", "Identifier", "OpenBracket", "Identifier",
        "OpenParen", "Identifier", "Colon", "Int", "CloseParen",
        "Identifier", "OpenBracket", "Identifier", "CloseBracket",
        "Spread", "Identifier", "CloseBracket">>,
      <<"QueryKeyword", "Identifier", "OpenBracket", "Identifier",
        "OpenParen", "CloseParen", "Colon", "CloseBracket">> }

ParseInputs ==
    UNION { { MkTokens(s) : s \in KindSeqs(n) } : n \in 0..MaxToks }
    \cup { MkTokens(s) : s \in ParseSamples }

(***************************************************************************)
(* SpecParse: parse as a state machine, one step per top-level definition. *)
(***************************************************************************)
InitParse ==
    /\ LexIdle
    /\ GenIdle
    /\ LoadIdle
    /\ FileIdle
    /\ tokens \in ParseInputs
    /\ cursor = 0
    /\ module = EmptyModule
    /\ presult = "none"
    /\ perror = NoError

\* The parser after a call of parse_toplevel()?: the loop goes on after
\* Ok(()), parse returns an Err, a panic ends it.
ParseAfter(r) ==
    /\ cursor' = r.i
    /\ module' = IF r.st = "ok" THEN Top(r) ELSE module
    /\ presult' = CASE r.st = "ok" -> "none"
                    [] r.st = "err" -> "Err"
                    [] OTHER -> "panic"
    /\ perror' = r.err

\* One iteration of the loop of parse: parse_toplevel()?.
ParseToplevel ==
    /\ presult = "none"
    /\ parse_more(tokens, cursor)
    /\ ParseAfter(parse_toplevel(tokens, PState(cursor), module))
    /\ UNCHANGED <<tokens, lexvars, genvars, loadvars, filevars>>

\* The loop of parse ends: Ok(parser.module).
ParseReturn ==
    /\ presult = "none"
    /\ ~parse_more(tokens, cursor)
    /\ presult' = "Ok"
    /\ UNCHANGED <<tokens, cursor, module, perror, lexvars, genvars,
                   loadvars, filevars>>

NextParse == ParseToplevel \/ ParseReturn

SpecParse == InitParse /\ [][NextParse]_vars

(***************************************************************************)
(* The grammar of section 4.2 of the specification, as a recogniser: each  *)
(* operator gives the set of indices at which a derivation of its          *)
(* nonterminal that starts at index i can end.                             *)
(***************************************************************************)
KindAt(toks, i) == IF i < Len(toks) THEN toks[i + 1].kind ELSE "EOF"

RECURSIVE GType(_, _)
GType(toks, i) ==
    LET k == KindAt(toks, i)
        base == CASE k \in {"Identifier", "StringKeyword", "IntKeyword",
                            "BoolKeyword"} -> {i + 1}
                  [] k = "OpenSquare" ->
                       { j + 1 : j \in { e \in GType(toks, i + 1) :
                                           KindAt(toks, e) = "CloseSquare" } }
                  [] OTHER -> {}
    IN  base \cup { j + 1 : j \in { e \in base :
                                       KindAt(toks, e) = "Exclamation" } }

GValue(toks, i) ==
    IF KindAt(toks, i) \in {"Int", "String", "Variable"} THEN {i + 1} ELSE {}

RECURSIVE GArgDefList(_, _)
GArgDefList(toks, i) ==
    (IF KindAt(toks, i) = "CloseParen" THEN {i + 1} ELSE {})
    \cup (IF KindAt(toks, i) = "Variable" /\ KindAt(toks, i + 1) = "Colon"
          THEN UNION { GArgDefList(toks, j) : j \in GType(toks, i + 2) }
          ELSE {})

GArgDefs(toks, i) ==
    {i} \cup (IF KindAt(toks, i) = "OpenParen"
              THEN GArgDefList(toks, i + 1) ELSE {})

RECURSIVE GArgList(_, _)
GArgList(toks, i) ==
    (IF KindAt(toks, i) = "CloseParen" THEN {i + 1} ELSE {})
    \cup (IF KindAt(toks, i) = "Identifier" /\ KindAt(toks, i + 1) = "Colon"
          THEN UNION { GArgList(toks, j) : j \in GValue(toks, i + 2) }
          ELSE {})

GArgs(toks, i) ==
    {i} \cup (IF KindAt(toks, i) = "OpenParen"
              THEN GArgList(toks, i + 1) ELSE {})

RECURSIVE GSelection(_, _)
RECURSIVE GFields(_, _)
RECURSIVE GField(_, _)

GSelection(toks, i) ==
    IF KindAt(toks, i) = "OpenBracket" THEN GFields(toks, i + 1) ELSE {}

GOptSelection(toks, i) == {i} \cup GSelection(toks, i)

GFields(toks, i) ==
    (IF KindAt(toks, i) = "CloseBracket" THEN {i + 1} ELSE {})
    \cup UNION { GFields(toks, j) : j \in GField(toks, i) }

GField(toks, i) ==
    CASE KindAt(toks, i) = "Identifier" ->
            UNION { GOptSelection(toks, j) : j \in GArgs(toks, i + 1) }
      [] KindAt(toks, i) = "Spread" ->
            (IF KindAt(toks, i + 1) = "Identifier" THEN {i + 2} ELSE {})
            \cup (IF KindAt(toks, i + 1) = "OnKeyword"
                  THEN UNION { GSelection(toks, j) : j \in GType(toks, i + 2) }
                  ELSE {})
      [] OTHER -> {}

GDefinition(toks, i) ==
    CASE KindAt(toks, i) = "QueryKeyword" /\ KindAt(toks, i + 1) = "Identifier"
            -> UNION { GSelection(toks, j) : j \in GArgDefs(toks, i + 2) }
      [] KindAt(toks, i) = "MutationKeyword"
            /\ KindAt(toks, i + 1) = "Identifier"
            -> UNION { GOptSelection(toks, j) : j \in GArgDefs(toks, i + 2) }
      [] KindAt(toks, i) = "FragmentKeyword"
            /\ KindAt(toks, i + 1) = "Identifier"
            /\ KindAt(toks, i + 2) = "OnKeyword"
            -> UNION { UNION { GSelection(toks, j) : j \in GArgDefs(toks, e) } :
                        e \in GType(toks, i + 3) }
      [] OTHER -> {}

RECURSIVE GDocument(_, _)
GDocument(toks, i) ==
    {i} \cup UNION { GDocument(toks, j) : j \in GDefinition(toks, i) }

Derivable(toks) == Len(toks) \in GDocument(toks, 0)

(***************************************************************************)
(* Claims about the parser, checked under SpecParse.                       *)
(***************************************************************************)

\* C1: parse returns a Document only for a token sequence derivable from the
\* grammar: a selection that does not start with `{`, or a fragment name not
\* followed by `on`, never ends in Ok.
C1_FailFast == presult = "Ok" => Derivable(tokens)

\* C2: parse never reads a token at an index at or past the end of the token
\* sequence: a sequence that ends before a construct is complete ends in an
\* Err that carries a line and a column, never in an out-of-bounds read.
C2_NoReadPastEnd == presult # "panic"

\* C3: whenever parse returns a Document the cursor equals the number of
\* tokens: nothing is left over and nothing was read past the end.
C3_ConsumesAll == presult = "Ok" => cursor = Len(tokens)

\* C3 witness: a Document with a query that selects a field was returned.
C3_Witness ==
    /\ presult = "Ok"
    /\ Len(module.queries) > 0
    /\ Len(module.queries[1].fields) > 0

(***************************************************************************)
(* schema.rs: NamedType, Field and Schema.  `fields` and `types` are the   *)
(* HashMaps keyed by name, as functions; the arguments of a schema field   *)
(* are never read by gen and are left out.                                 *)
(***************************************************************************)
NamedTypeKind == {"Scalar", "Object", "Enum", "InputObject", "Interface"}

SField(name, of_type) == [name |-> name, of_type |-> of_type]
NamedType(name, kind, fields) ==
    [name |-> name, kind |-> kind, fields |-> fields]
Schema(query_type, mutation_type, types) ==
    [query_type |-> query_type, mutation_type |-> mutation_type,
     types |-> types]

\* What a lookup that panics (unwrap of None, index of a missing key) has
\* in hand; the panic itself is the command `unwind` at the lookup.
MissingType == NamedType("", "Missing", <<>>)
TypeMissing == [t |-> "Missing"]

\* Schema::get, Some(named) or None.
get(sch, name) ==
    IF name \in DOMAIN sch.types THEN sch.types[name] ELSE MissingType

RECURSIVE get_named(_, _)
\* Schema::get_named
get_named(sch, object_type) ==
    CASE object_type.t = "Input" -> get(sch, object_type.name)
      [] object_type.t \in {"Array", "NonNull"} ->
            get_named(sch, object_type.of)
      [] OTHER -> MissingType

\* object_type.fields[name].of_type
field_type(object_type, name) ==
    IF name \in DOMAIN object_type.fields
    THEN object_type.fields[name].of_type
    ELSE TypeMissing

\* Schema::get_type_of_field
get_type_of_field(sch, object_type, name) ==
    IF field_type(object_type, name) = TypeMissing THEN MissingType
    ELSE get_named(sch, field_type(object_type, name))

\* Schema::query_root
query_root(sch) == get(sch, sch.query_type)

\* Schema::mutation_root
mutation_root(sch) == get(sch, sch.mutation_type)

(***************************************************************************)
(* codegen.rs: Codegen.  A function of Codegen is the sequence of the      *)
(* statements it executes on self.src and self.indent, in order: one       *)
(* command per `self.src += ..`, per indent(), unindent() and newline(),   *)
(* and `unwind` where it panics.  No function of Codegen reads src or      *)
(* indent to decide what to do, except newline; Run executes a sequence of *)
(* commands on a Codegen.                                                  *)
(***************************************************************************)
Src(s) == <<[c |-> "src", s |-> s]>>
indent == <<[c |-> "indent", s |-> ""]>>
unindent == <<[c |-> "unindent", s |-> ""]>>
newline == <<[c |-> "newline", s |-> ""]>>
unwind == <<[c |-> "panic", s |-> ""]>>

\* Codegen::opening_brace
opening_brace == Src(" {") \o indent

\* closing_brace without its unindent().
closing_brace_kept == newline \o Src("}")

\* Codegen::closing_brace
closing_brace == unindent \o newline \o Src("}")

\* Codegen{ .., src: "".to_string(), indent: 0 }
NewCodegen == [src |-> <<>>, indent |-> 0, st |-> "ok"]

\* The effect of one command: `self.src += s`, Codegen::indent,
\* Codegen::unindent (usize: below 0 it panics), Codegen::newline ("\n" and
\* "    " indent times), or a panic.
Step(g, cmd) ==
    IF g.st # "ok" THEN g
    ELSE CASE cmd.c = "src" -> [g EXCEPT !.src = Append(@, cmd.s)]
           [] cmd.c = "indent" -> [g EXCEPT !.indent = @ + 1]
           [] cmd.c = "unindent" ->
                IF g.indent = 0 THEN [g EXCEPT !.st = "panic"]
                ELSE [g EXCEPT !.indent = @ - 1]
           [] cmd.c = "newline" ->
                [g EXCEPT !.src = Append(@, "\n")
                                    \o [n \in 1..g.indent |-> "    "]]
           [] OTHER -> [g EXCEPT !.st = "panic"]

RECURSIVE RunFrom(_, _, _, _)
\* The commands cmds[lo..hi] executed in order, up to a panic.
RunFrom(g, cmds, lo, hi) ==
    IF g.st # "ok" \/ lo > hi THEN g
    ELSE IF lo = hi THEN Step(g, cmds[lo])
    ELSE RunFrom(RunFrom(g, cmds, lo, (lo + hi) \div 2), cmds,
                 (lo + hi) \div 2 + 1, hi)

Run(g, cmds) == RunFrom(g, cmds, 1, Len(cmds))

RECURSIVE Concat(_)
\* The statements of the iterations of a `for` loop, one after the other.
Concat(seqs) ==
    IF Len(seqs) = 0 THEN <<>> ELSE Head(seqs) \o Concat(Tail(seqs))

\* The names gen meets, each split into its first character and the rest
\* (`c.next()` and `c` of swift_name).
Split(s) ==
    CASE s = "query" -> <<"q", "uery">>
      [] s = "mutation" -> <<"m", "utation">>
      [] s = "Data" -> <<"D", "ata">>
      [] s = "Types" -> <<"T", "ypes">>
      [] s = "Query" -> <<"Q", "uery">>
      [] s = "Mutation" -> <<"M", "utation">>
      [] s = "User" -> <<"U", "ser">>
      [] s = "Node" -> <<"N", "ode">>
      [] s = "Human" -> <<"H", "uman">>
      [] s = "Droid" -> <<"D", "roid">>
      [] s = "user" -> <<"u", "ser">>
      [] s = "node" -> <<"n", "ode">>
      [] s = "id" -> <<"i", "d">>
      [] s = "name" -> <<"n", "ame">>
      [] s = "model" -> <<"m", "odel">>
      [] s = "friend" -> <<"f", "riend">>
      [] s = "rename" -> <<"r", "ename">>
      [] s = "hero" -> <<"h", "ero">>
      [] s = "humanFrag" -> <<"h", "umanFrag">>
      [] s = "droidFrag" -> <<"d", "roidFrag">>
      [] s = "userFrag" -> <<"u", "serFrag">>
      [] s = "nodeFrag" -> <<"n", "odeFrag">>
      [] s = "queryFrag" -> <<"q", "ueryFrag">>
      [] s = "bogus" -> <<"b", "ogus">>
      [] s = "GetUser" -> <<"G", "etUser">>
      [] s = "tags" -> <<"t", "ags">>
      [] s = "friends" -> <<"f", "riends">>
      [] s = "grid" -> <<"g", "rid">>
      [] s = "score" -> <<"s", "core">>
      [] s = "active" -> <<"a", "ctive">>

\* char::to_uppercase
to_uppercase(c) ==
    LET lower == <<"a", "b", "c", "d", "e", "f", "g", "h", "i", "j", "k", "l",
                   "m", "n", "o", "p", "q", "r", "s", "t", "u", "v", "w", "x",
                   "y", "z">>
        upper == <<"A", "B", "C", "D", "E", "F", "G", "H", "I", "J", "K", "L",
                   "M", "N", "O", "P", "Q", "R", "S", "T", "U", "V", "W", "X",
                   "Y", "Z">>
    IN  IF \E n \in 1..26 : lower[n] = c
        THEN upper[CHOOSE n \in 1..26 : lower[n] = c]
        ELSE c

\* Codegen::swift_name: the first character in upper case, then the rest.
\* (Of the name of a type that is missing only after the panic at its
\* lookup.)
swift_name(s) ==
    IF s = "" THEN "" ELSE to_uppercase(Split(s)[1]) \o Split(s)[2]

RECURSIVE write_type(_, _, _, _)
RECURSIVE write_type_non_nullable(_, _, _, _)

\* Codegen::sole_fragment: Some(frag) as <<frag>>, None as <<>>.
sole_fragment(fields) ==
    IF Len(fields) = 1 /\ fields[1].f = "Fragment"
    THEN <<fields[1].name>> ELSE <<>>

\* Codegen::write_type_non_nullable
write_type_non_nullable(sch, of_type, fields, nest_type) ==
    CASE of_type.t = "NonNull" -> unwind
      [] of_type.t = "String" -> Src("String")
      [] of_type.t = "Int" -> Src("Int")
      [] of_type.t = "Float" -> Src("Float")
      [] of_type.t = "Bool" -> Src("Bool")
      [] of_type.t = "Input" ->
            IF get(sch, of_type.name) = MissingType THEN unwind
            ELSE IF get(sch, of_type.name).kind \in {"InputObject", "Scalar"}
            THEN Src(of_type.name)
            ELSE IF sole_fragment(fields) # <<>>
            THEN Src(swift_name(sole_fragment(fields)[1]))
            ELSE Src(nest_type)
      [] of_type.t = "Array" ->
            Src("[") \o write_type(sch, of_type.of, fields, nest_type)
                     \o Src("]")
      [] OTHER -> unwind

\* write_type without the `?` of the types that are not NonNull.
write_type_required(sch, of_type, fields, nest_type) ==
    IF of_type.t = "NonNull"
    THEN write_type_non_nullable(sch, of_type.of, fields, nest_type)
    ELSE write_type_non_nullable(sch, of_type, fields, nest_type)

\* Codegen::write_type
write_type(sch, of_type, fields, nest_type) ==
    IF of_type.t = "NonNull"
    THEN write_type_non_nullable(sch, of_type.of, fields, nest_type)
    ELSE write_type_non_nullable(sch, of_type, fields, nest_type)
         \o Src("?")

\* Codegen::has_only_fragments
has_only_fragments(fields) ==
    \A k \in 1..Len(fields) : fields[k].f # "PlainField"

\* anaylze with the kind of the type looked at before the sole fragment.
anaylze_kind_first(named, fields) ==
    IF named.kind = "Interface"
    THEN IF has_only_fragments(fields) THEN "InterfaceOnlyFragments"
         ELSE "Interface"
    ELSE IF sole_fragment(fields) # <<>> THEN "SoleFragment"
    ELSE "Regular"

\* Codegen::anaylze
anaylze(named, fields) ==
    IF sole_fragment(fields) # <<>> THEN "SoleFragment"
    ELSE IF named.kind = "Interface"
    THEN IF has_only_fragments(fields) THEN "InterfaceOnlyFragments"
         ELSE "Interface"
    ELSE "Regular"

\* Codegen::should_gen_nested_types
should_gen_nested_types(fields) ==
    Len(fields) > 0 /\ sole_fragment(fields) = <<>>

\* `object_type.fields[name]`: a panic when the key is missing.
index(object_type, name) ==
    IF name \in DOMAIN object_type.fields THEN <<>> ELSE unwind

\* The unwrap of Schema::get in get_named, and its panic! arm.
unwrap(named) == IF named = MissingType THEN unwind ELSE <<>>

\* Codegen::gen_custom_interface_decoding
gen_custom_interface_decoding(sch, object_type, fields) ==
    newline
    \o Src("enum CodingKeys : String, CodingKey")
    \o opening_brace
    \o newline
    \o Src("case __typename")
    \o Concat([k \in 1..Len(fields) |->
            IF fields[k].f = "PlainField"
            THEN Src(", ") \o Src(fields[k].name)
            ELSE <<>>])
    \o closing_brace
    \o newline
    \o Src("init(from decoder: Decoder) throws")
    \o opening_brace
    \o newline
    \o Src("let container = try decoder.container(keyedBy: CodingKeys.self)")
    \o Concat([k \in 1..Len(fields) |->
            IF fields[k].f = "PlainField"
            THEN newline
                 \o Src("self.")
                 \o Src(fields[k].name)
                 \o Src(" = try container.decode(")
                 \o index(object_type, fields[k].name)
                 \o write_type(sch, field_type(object_type, fields[k].name),
                               fields[k].fields, fields[k].name)
                 \o Src(".self, forKey: .")
                 \o Src(fields[k].name)
                 \o Src(")")
            ELSE <<>>])
    \o newline
    \o Src("self.kind = try Types(from: decoder)")
    \o closing_brace

\* Codegen::gen_type_def
gen_type_def(kind, name, is_identifiable) ==
    Src(kind)
    \o Src(" ")
    \o Src(swift_name(name))
    \o Src(" : Decodable")
    \o (IF is_identifiable THEN Src(", Identifiable") ELSE <<>>)
    \o opening_brace

\* The `(name, of_type)` of gen_enum_for_possible_types for one element of
\* the selection: for a spread both are the name of the fragment, for an
\* inline fragment the name of its type and its sole fragment or that name.
case_of(sch, field) ==
    CASE field.f = "Fragment" ->
            <<[name |-> field.name, of_type |-> field.name]>>
      [] field.f = "InlineFragment" ->
            IF sole_fragment(field.fields) # <<>>
            THEN <<[name |-> get_named(sch, field.on).name,
                    of_type |-> sole_fragment(field.fields)[1]]>>
            ELSE <<[name |-> get_named(sch, field.on).name,
                    of_type |-> get_named(sch, field.on).name]>>
      [] OTHER -> <<>>

\* The vector `cases` of gen_enum_for_possible_types: (name, type_name).
cases(sch, fields) ==
    Concat([k \in 1..Len(fields) |->
        IF case_of(sch, fields[k]) = <<>> THEN <<>>
        ELSE <<[name |-> case_of(sch, fields[k])[1].name,
                type_name |-> swift_name(case_of(sch, fields[k])[1].of_type)]>>])

\* Codegen::gen_enum_for_possible_types: the first loop.
gen_enum_cases(sch, fields) ==
    Concat([k \in 1..Len(fields) |->
        IF case_of(sch, fields[k]) = <<>> THEN <<>>
        ELSE (IF fields[k].f = "InlineFragment"
              THEN unwrap(get_named(sch, fields[k].on)) ELSE <<>>)
             \o newline
             \o Src("case As" \o case_of(sch, fields[k])[1].name \o "("
                    \o swift_name(case_of(sch, fields[k])[1].of_type)
                    \o ")")])

\* Codegen::gen_enum_for_possible_types: `if is_identifiable { .. }`.
gen_enum_id(cs) ==
    newline
    \o Src("var id : Int ")
    \o opening_brace
    \o newline
    \o Src("switch self")
    \o opening_brace
    \o Concat([k \in 1..Len(cs) |->
            newline
            \o Src("case let .As")
            \o Src(cs[k].name)
            \o Src("(value) : return value.id")])
    \o closing_brace
    \o closing_brace

\* Codegen::gen_enum_for_possible_types: the decoder.
gen_enum_decoder(cs) ==
    newline
    \o Src("init(from decoder: Decoder) throws")
    \o opening_brace
    \o newline
    \o Src("let container = try decoder.container(keyedBy: TypenameKeys.self)")
    \o newline
    \o Src("switch try container.decode(String.self, forKey: .__typename)")
    \o opening_brace
    \o Concat([k \in 1..Len(cs) |->
            newline
            \o Src("case \"")
            \o Src(cs[k].name)
            \o Src("\" : self = .As")
            \o Src(cs[k].name)
            \o Src("(try ")
            \o Src(cs[k].type_name)
            \o Src("(from: decoder))")])
    \o newline
    \o Src("default: throw UnknownTypename()")
    \o closing_brace
    \o closing_brace

\* Codegen::gen_enum_for_possible_types
gen_enum_for_possible_types(sch, object_type, name, fields) ==
    newline
    \o gen_type_def("enum", name, "id" \in DOMAIN object_type.fields)
    \o gen_enum_cases(sch, fields)
    \o (IF "id" \in DOMAIN object_type.fields
        THEN gen_enum_id(cases(sch, fields)) ELSE <<>>)
    \o gen_enum_decoder(cases(sch, fields))
    \o closing_brace
    \o newline

\* Codegen::has_id_field
has_id_field(fields) ==
    \E k \in 1..Len(fields) :
        fields[k].f = "PlainField" /\ fields[k].name = "id"

\* Codegen::gen_fields
gen_fields(sch, object_type, fields) ==
    Concat([k \in 1..Len(fields) |->
        CASE fields[k].f = "PlainField" ->
                newline
                \o index(object_type, fields[k].name)
                \o Src("var ")
                \o Src(fields[k].name)
                \o Src(" : ")
                \o write_type(sch, field_type(object_type, fields[k].name),
                              fields[k].fields, swift_name(fields[k].name))
          [] fields[k].f = "InlineFragment" -> <<>>
          [] fields[k].f = "Fragment" ->
                IF object_type.kind # "Interface"
                THEN Src("var ")
                     \o Src(fields[k].name)
                     \o Src(" : ")
                     \o Src(swift_name(fields[k].name))
                ELSE <<>>])
    \o (IF object_type.kind = "Interface"
        THEN newline \o Src("var kind : Types") ELSE <<>>)

\* The elements of a selection gen_type_for_fields visits: all of them, or
\* with is_interface those before the first inline fragment (`return`).
visited(is_interface, fields) ==
    IF is_interface /\ \E k \in 1..Len(fields) : fields[k].f = "InlineFragment"
    THEN (CHOOSE k \in 1..Len(fields) :
            /\ fields[k].f = "InlineFragment"
            /\ \A j \in 1..(k - 1) : fields[j].f # "InlineFragment") - 1
    ELSE Len(fields)

RECURSIVE gen_type_for(_, _, _, _)

\* Codegen::gen_type_for_fields
gen_type_for_fields(sch, object_type, is_interface, fields) ==
    Concat([k \in 1..visited(is_interface, fields) |->
        CASE fields[k].f = "PlainField" ->
                IF should_gen_nested_types(fields[k].fields)
                THEN index(object_type, fields[k].name)
                     \o unwrap(get_type_of_field(sch, object_type,
                                                 fields[k].name))
                     \o gen_type_for(sch,
                            get_type_of_field(sch, object_type,
                                              fields[k].name),
                            fields[k].name, fields[k].fields)
                ELSE <<>>
          [] fields[k].f = "InlineFragment" ->
                unwrap(get_named(sch, fields[k].on))
                \o gen_type_for(sch, get_named(sch, fields[k].on),
                                get_named(sch, fields[k].on).name,
                                fields[k].fields)
          [] OTHER -> <<>>])

\* Codegen::gen_type_for.  The name it returns is used by none of its
\* callers.
gen_type_for(sch, object_type, name, fields) ==
    CASE anaylze(object_type, fields) = "SoleFragment" -> <<>>
      [] anaylze(object_type, fields) = "InterfaceOnlyFragments" ->
            newline
            \o gen_enum_for_possible_types(sch, object_type, name, fields)
      [] anaylze(object_type, fields) = "Interface" ->
            newline
            \o gen_type_def("struct", name, has_id_field(fields))
            \o gen_enum_for_possible_types(sch, object_type, "Types", fields)
            \o gen_type_for_fields(sch, object_type, TRUE, fields)
            \o gen_fields(sch, object_type, fields)
            \o gen_custom_interface_decoding(sch, object_type, fields)
            \o closing_brace
      [] OTHER ->
            newline
            \o gen_type_def("struct", name, has_id_field(fields))
            \o gen_type_for_fields(sch, object_type, FALSE, fields)
            \o gen_fields(sch, object_type, fields)
            \o closing_brace

\* Codegen::gen_args
gen_args(sch, args) ==
    Concat([k \in 1..Len(args) |->
        Src("var ")
        \o Src(args[k].name)
        \o Src(" : ")
        \o write_type(sch, args[k].kind, <<>>, "")
        \o newline])

\* gen_ql_value with `false` for the false branch, as for the true one.
gen_ql_value_alike(value) ==
    CASE value.v = "Bool" ->
            IF value.val THEN Src("true") ELSE Src("false")
      [] value.v = "String" -> Src("\"") \o Src(value.val) \o Src("\"")
      [] value.v = "Int" -> Src(ToString(value.val) \o " ")
      [] value.v = "Variable" -> Src("$") \o Src(value.val)

\* Codegen::gen_ql_value
gen_ql_value(value) ==
    CASE value.v = "Bool" ->
            IF value.val THEN Src("true") ELSE Src("false ")
      [] value.v = "String" -> Src("\"") \o Src(value.val) \o Src("\"")
      [] value.v = "Int" -> Src(ToString(value.val) \o " ")
      [] value.v = "Variable" -> Src("$") \o Src(value.val)

RECURSIVE gen_ql_type(_)
\* Codegen::gen_ql_type
gen_ql_type(of_type) ==
    CASE of_type.t = "String" -> Src("String")
      [] of_type.t = "Float" -> Src("Float")
      [] of_type.t = "Bool" -> Src("Bool")
      [] of_type.t = "Int" -> Src("Int")
      [] of_type.t = "NonNull" -> gen_ql_type(of_type.of) \o Src("!")
      [] of_type.t = "Array" ->
            Src("[") \o gen_ql_type(of_type.of) \o Src("]")
      [] of_type.t = "Input" -> Src(of_type.name)

\* Codegen::comma_seperated, given what f does for each element.
comma_seperated(items) ==
    Concat([k \in 1..Len(items) |->
        items[k] \o (IF k < Len(items) THEN Src(", ") ELSE <<>>)])

\* Mutant of gen_ql_typename: `__typename` whatever the kind of the type.
gen_ql_typename_always(object_type) == newline \o Src("__typename")

\* Codegen::gen_ql_fields: the `__typename` of a selection on an Interface.
gen_ql_typename(object_type) ==
    IF object_type.kind = "Interface"
    THEN newline \o Src("__typename")
    ELSE <<>>

RECURSIVE gen_ql_fields(_, _, _)
\* Codegen::gen_ql_fields
gen_ql_fields(sch, object_type, fields) ==
    IF Len(fields) = 0 THEN <<>>
    ELSE
    opening_brace
    \o gen_ql_typename(object_type)
    \o Concat([k \in 1..Len(fields) |->
        newline
        \o (CASE fields[k].f = "PlainField" ->
                Src(fields[k].name)
                \o (IF Len(fields[k].args) > 0
                    THEN Src("(")
                         \o comma_seperated(
                              [a \in 1..Len(fields[k].args) |->
                                  Src(fields[k].args[a].name)
                                  \o Src(" : ")
                                  \o gen_ql_value(fields[k].args[a].value)])
                         \o Src(")")
                    ELSE <<>>)
                \o (IF Len(fields[k].fields) > 0
                    THEN index(object_type, fields[k].name)
                         \o unwrap(get_type_of_field(sch, object_type,
                                                     fields[k].name))
                         \o gen_ql_fields(sch,
                                get_type_of_field(sch, object_type,
                                                  fields[k].name),
                                fields[k].fields)
                    ELSE <<>>)
             [] fields[k].f = "Fragment" ->
                Src("...") \o Src(fields[k].name)
             [] fields[k].f = "InlineFragment" ->
                Src("... on ")
                \o gen_ql_type(fields[k].on)
                \o unwrap(get_named(sch, fields[k].on))
                \o gen_ql_fields(sch, get_named(sch, fields[k].on),
                                 fields[k].fields))])
    \o closing_brace

RECURSIVE find_fragments(_)
\* Mutant of find_fragments: the inline fragments are not entered.
find_fragments_outside_inline(fields) ==
    UNION { IF fields[k].f = "Fragment" THEN {fields[k].name}
            ELSE IF fields[k].f = "InlineFragment" THEN {}
            ELSE find_fragments(fields[k].fields)
            : k \in 1..Len(fields) }

\* Codegen::find_fragments: the HashSet it fills, as a set.
find_fragments(fields) ==
    UNION { IF fields[k].f = "Fragment" THEN {fields[k].name}
            ELSE find_fragments(fields[k].fields)
            : k \in 1..Len(fields) }

\* The orders in which a HashSet with the default hasher can iterate: its
\* RandomState is seeded anew for every set, and any order can come out.
IterOrders(set) ==
    { order \in [1..Cardinality(set) -> set] :
        \A x \in set : \E n \in 1..Cardinality(set) : order[n] = x }

\* Codegen::gen_dependent_fragments, `fragments.iter()` giving iter.
gen_dependent_fragments(iter) ==
    Src("[")
    \o Concat([k \in 1..Len(iter) |->
            Src("\"")
            \o Src(iter[k])
            \o Src("\"")
            \o (IF k < Len(iter) THEN Src(",") ELSE <<>>)])
    \o Src("]")

\* Codegen::gen_ql_args
gen_ql_args(args) ==
    IF Len(args) > 0
    THEN Src("(")
         \o comma_seperated([k \in 1..Len(args) |->
                Src("$")
                \o Src(args[k].name)
                \o Src(" : ")
                \o gen_ql_type(args[k].kind)])
         \o Src(")")
    ELSE <<>>

\* gen_ql without `self.src += " "` between the kind and the name.
gen_ql_joined(sch, kind, base, name, args, fields, iter) ==
    Src("static let fragments : [String] = ")
    \o gen_dependent_fragments(iter)
    \o newline
    \o Src("static let graphql = \"\"\"")
    \o newline
    \o Src(kind)
    \o Src(name)
    \o gen_ql_args(args)
    \o gen_ql_fields(sch, base, fields)
    \o newline
    \o Src("\"\"\"")
    \o newline

\* Codegen::gen_ql
gen_ql(sch, kind, base, name, args, fields, iter) ==
    Src("static let fragments : [String] = ")
    \o gen_dependent_fragments(iter)
    \o newline
    \o Src("static let graphql = \"\"\"")
    \o newline
    \o Src(kind)
    \o Src(" ")
    \o Src(name)
    \o gen_ql_args(args)
    \o gen_ql_fields(sch, base, fields)
    \o newline
    \o Src("\"\"\"")
    \o newline

\* Codegen::gen_api_for
gen_api_for(sch, kind, base, name, args, fields, iter) ==
    newline
    \o newline
    \o Src("struct " \o swift_name(name) \o swift_name(kind)
           \o " : Encodable, GraphQL" \o swift_name(kind))
    \o opening_brace
    \o newline
    \o gen_ql(sch, kind, base, name, args, fields, iter)
    \o newline
    \o gen_args(sch, args)
    \o gen_type_for(sch, base, "Data", fields)
    \o closing_brace

\* Codegen::gen_fragments: the body of its loop for one fragment.
gen_fragment(sch, query, iter) ==
    newline
    \o newline
    \o unwrap(get_named(sch, query.on))
    \o gen_type_for(sch, get_named(sch, query.on), query.name, query.fields)
    \o newline
    \o Src("func init")
    \o Src(swift_name(query.name))
    \o Src("Fragment(meta: FragmentMeta)")
    \o opening_brace
    \o newline
    \o Src("meta.register(name: \"")
    \o Src(query.name)
    \o Src("\", fragments: ")
    \o gen_dependent_fragments(iter)
    \o Src(", graphql: \"\"\"")
    \o newline
    \o Src("fragment ")
    \o Src(query.name)
    \o Src(" on ")
    \o Src(get_named(sch, query.on).name)
    \o gen_ql_args(query.args)
    \o gen_ql_fields(sch, get_named(sch, query.on), query.fields)
    \o newline
    \o Src("\"\"\")")
    \o closing_brace

(***************************************************************************)
(* The schemas and documents given to gen.                                 *)
(***************************************************************************)
\* schema.rs, fields_from: the HashMap of a type's fields, keyed by name.
fields_from(fields) ==
    [n \in {fields[k].name : k \in 1..Len(fields)} |->
        fields[CHOOSE k \in 1..Len(fields) :
                 /\ fields[k].name = n
                 /\ \A j \in (k + 1)..Len(fields) : fields[j].name # n]]

\* schema.rs, from: the HashMap types_result, keyed by name.
types_from(types) ==
    [n \in {types[k].name : k \in 1..Len(types)} |->
        types[CHOOSE k \in 1..Len(types) :
                /\ types[k].name = n
                /\ \A j \in (k + 1)..Len(types) : types[j].name # n]]

Ident == <<SField("id", TypeNonNull(TypeInt))>>

\* An interface Node implemented by Human and Droid, an object User, and
\* the roots; with_id gives Node and its implementations the field id.
SchemaTypes(with_id) ==
    << NamedType("Query", "Object", fields_from(
           <<SField("user", TypeInput("User")),
             SField("node", TypeNonNull(TypeInput("Node")))>>)),
       NamedType("User", "Object", fields_from(
           Ident \o <<SField("name", TypeNonNull(TypeString)),
                      SField("friend", TypeInput("User"))>>)),
       NamedType("Node", "Interface", fields_from(
           IF with_id THEN Ident ELSE <<>>)),
       NamedType("Human", "Object", fields_from(
           (IF with_id THEN Ident ELSE <<>>)
           \o <<SField("name", TypeNonNull(TypeString)),
                SField("friend", TypeInput("Node"))>>)),
       NamedType("Droid", "Object", fields_from(
           (IF with_id THEN Ident ELSE <<>>)
           \o <<SField("model", TypeNonNull(TypeString))>>)) >>

MutationType ==
    NamedType("Mutation", "Object", fields_from(
        <<SField("rename", TypeInput("User"))>>))

Schemas ==
    { Schema("Query", "Mutation",
             types_from(SchemaTypes(TRUE) \o <<MutationType>>)),
      Schema("Query", "Mutation",
             types_from(SchemaTypes(FALSE) \o <<MutationType>>)) }

\* A schema whose types do not hold the mutation root its mutationType
\* names.
SchemaNoMutation == Schema("Query", "Mutation", types_from(SchemaTypes(TRUE)))

F(name) == PlainField(name, <<>>, <<>>)
Sub(name, fields) == PlainField(name, <<>>, fields)
On(name, fields) == InlineFragment(TypeInput(name), fields)
Sp(name) == FragmentSpread(name)

\* Selections on User, on Node and on Human.
UserSels ==
    { <<F("id"), F("name")>>,
      <<Sp("userFrag")>>,
      <<F("name"), Sub("friend", <<Sp("userFrag")>>)>>,
      <<F("id"), Sub("friend", <<F("name")>>)>>,
      <<Sp("userFrag"), F("id")>> }

NodeSels ==
    { <<On("Human", <<F("name")>>), On("Droid", <<F("model")>>)>>,
      <<Sp("humanFrag"), Sp("droidFrag")>>,
      <<F("id"), On("Human", <<F("name")>>)>>,
      <<On("Human", <<Sp("humanFrag")>>), On("Droid", <<F("model")>>)>>,
      <<Sp("nodeFrag")>>,
      <<On("Human", <<Sp("humanFrag"), F("name")>>), Sp("humanFrag"),
        Sp("droidFrag")>>,
      <<On("Human", <<F("name"),
                      Sub("friend", <<On("Droid", <<F("model")>>)>>)>>)>> }

HumanSels ==
    { <<F("name")>>,
      <<On("Node", <<F("id")>>)>>,
      <<F("name"), Sub("friend", <<Sp("humanFrag"), Sp("droidFrag")>>)>> }

\* Arguments of a field, of every kind of Value.
ArgLists ==
    { <<Argument("id", ValueInt(1))>>,
      <<Argument("id", ValueVariable("id")), Argument("name", ValueString("x"))>>,
      <<Argument("yes", ValueBool(TRUE)), Argument("no", ValueBool(FALSE))>> }

\* The fields of a query: one or two of user and node, or a sole spread.
RootUser ==
    { Sub("user", sel) : sel \in UserSels }
    \cup { PlainField("user", args, <<F("id"), F("name")>>) : args \in ArgLists }
RootNode == { Sub("node", sel) : sel \in NodeSels }
RootSels ==
    { <<f>> : f \in RootUser \cup RootNode }
    \cup { <<Sub("user", u), n>> :
             u \in {<<F("id"), F("name")>>, <<Sp("userFrag")>>}, n \in RootNode }
    \cup { <<Sp("queryFrag")>>, <<F("bogus")>> }

\* The declaration of each fragment the selections above spread.
Decl(name) ==
    CASE name = "humanFrag" ->
            Fragment("humanFrag", <<>>, TypeInput("Human"), <<F("name")>>)
      [] name = "droidFrag" ->
            Fragment("droidFrag", <<>>, TypeInput("Droid"), <<F("model")>>)
      [] name = "userFrag" ->
            Fragment("userFrag", <<>>, TypeInput("User"),
                     <<F("id"), F("name")>>)
      [] name = "nodeFrag" ->
            Fragment("nodeFrag", <<>>, TypeInput("Node"),
                     <<On("Human", <<F("name")>>), On("Droid", <<F("model")>>)>>)
      [] name = "queryFrag" ->
            Fragment("queryFrag", <<>>, TypeInput("Query"),
                     <<Sub("user", <<F("id"), F("name")>>)>>)

\* Fragments of every shape, among them one on a type the schema lacks.
FragmentPool ==
    { Fragment("humanFrag", <<>>, TypeInput("Human"), sel) : sel \in HumanSels }
    \cup { Fragment("userFrag", <<>>, TypeInput("User"), sel) :
             sel \in UserSels \ {<<Sp("userFrag")>>} }
    \cup { Fragment("nodeFrag", <<>>, TypeInput("Node"), sel) :
             sel \in NodeSels \ {<<Sp("nodeFrag")>>} }
    \cup { Fragment("queryFrag", <<ArgumentDef("id", TypeNonNull(TypeInt))>>,
                    TypeInput("Query"),
                    <<PlainField("user", <<Argument("id", ValueVariable("id"))>>,
                                 <<Sp("userFrag")>>)>>),
           Decl("droidFrag"),
           Fragment("bogus", <<>>, TypeInput("Bogus"), <<F("id")>>) }

\* The orders in which the elements of a set can be listed.
Listings(set) ==
    { order \in [1..Cardinality(set) -> set] :
        \A x \in set : \E n \in 1..Cardinality(set) : order[n] = x }

\* All the arrangements of a sequence.
Arrangements(seq) ==
    { [k \in 1..Len(seq) |-> seq[p[k]]] : p \in Listings(1..Len(seq)) }

RECURSIVE Occurs(_, _)
\* The fragment name is spread somewhere in the selection.
Occurs(name, fields) ==
    \E k \in 1..Len(fields) :
        IF fields[k].f = "Fragment" THEN fields[k].name = name
        ELSE Occurs(name, fields[k].fields)

FragmentNames == {"humanFrag", "droidFrag", "userFrag", "nodeFrag", "queryFrag"}
SpreadNames(fields) == { name \in FragmentNames : Occurs(name, fields) }

QueryArgs == {<<>>, <<ArgumentDef("id", TypeNonNull(TypeInt))>>}

TheMutation ==
    Mutation("rename", <<ArgumentDef("name", TypeNonNull(TypeString))>>,
             <<PlainField("rename", <<Argument("name", ValueVariable("name"))>>,
                          <<F("id"), F("name")>>)>>)

\* Documents of fragments only: one, or one on Node and one on Human.
FragmentDocs ==
    { GraphQL(<<a>>, <<>>, <<>>) : a \in FragmentPool }
    \cup { GraphQL(<<pair[1], pair[2]>>, <<>>, <<>>) :
             pair \in { ab \in FragmentPool \X FragmentPool :
                          ab[1].name = "nodeFrag" /\ ab[2].name = "humanFrag" } }

\* Documents of one query and the declarations, in any order, of the
\* fragments it spreads.
QueryDocs ==
    UNION { { GraphQL(decls, <<Query("hero", <<>>, sel)>>, <<>>) :
                decls \in Listings({ Decl(n) : n \in SpreadNames(sel) }) } :
            sel \in RootSels }

\* Documents of fragments, queries and a mutation.
FullDocs ==
    { GraphQL(<<Decl("userFrag")>>,
              <<Query("hero", args, <<Sub("user", <<Sp("userFrag")>>)>>)>>,
              muts) :
        args \in QueryArgs, muts \in {<<>>, <<TheMutation>>} }
    \cup { GraphQL(<<>>, <<>>, <<TheMutation>>), EmptyModule }

\* Scenario A: the query root has a field `user` of the object type
\* User{id: Int!, name: String!}; `query GetUser { user { id name } }`.
ScenarioASchema ==
    Schema("Query", "Mutation", types_from(
        << NamedType("Query", "Object", fields_from(
               <<SField("user", TypeInput("User"))>>)),
           NamedType("User", "Object", fields_from(
               <<SField("id", TypeNonNull(TypeInt)),
                 SField("name", TypeNonNull(TypeString))>>)),
           MutationType >>))

ScenarioADocument ==
    GraphQL(<<>>,
            <<Query("GetUser", <<>>, <<Sub("user", <<F("id"), F("name")>>)>>)>>,
            <<>>)

\* A schema whose interface Node has itself a field of an object type, and
\* selections on Node with that field before and after an inline fragment.
SchemaNodeFriend ==
    Schema("Query", "Mutation", types_from(
        SchemaTypes(TRUE)
        \o << NamedType("Node", "Interface", fields_from(
                  Ident \o <<SField("friend", TypeInput("User"))>>)),
              MutationType >>))

NodeFriendDocs ==
    { GraphQL(<<>>, <<Query("hero", <<>>, <<Sub("node", sel)>>)>>, <<>>) :
        sel \in { <<On("Human", <<F("name")>>), Sub("friend", <<F("name")>>)>>,
                  <<Sub("friend", <<F("name")>>), On("Human", <<F("name")>>)>>,
                  <<F("id"), Sub("friend", <<F("name")>>)>> } }

\* A schema whose type User has fields of list types, nullable and not, at
\* one and two levels, and documents that select them.
SchemaLists ==
    Schema("Query", "Mutation", types_from(
        SchemaTypes(TRUE)
        \o << NamedType("User", "Object", fields_from(
                  Ident
                  \o <<SField("name", TypeNonNull(TypeString)),
                       SField("tags", TypeArray(TypeNonNull(TypeString))),
                       SField("friends",
                              TypeNonNull(TypeArray(TypeInput("User")))),
                       SField("grid", TypeArray(TypeArray(TypeInt))),
                       SField("score", TypeFloat),
                       SField("active", TypeNonNull(TypeBool))>>)),
              MutationType >>))

ListDocs ==
    { GraphQL(<<>>, <<Query("hero", args, <<Sub("user", sel)>>)>>, <<>>) :
        args \in {<<>>,
                  <<ArgumentDef("id", TypeArray(TypeNonNull(TypeInt)))>>},
        sel \in { <<F("id"), F("tags"), Sub("friends", <<F("name")>>),
                    F("grid"), F("score"), F("active")>>,
                  <<F("grid"), Sub("friends", <<F("tags"), F("score")>>)>> } }

GenInputs ==
    (Schemas \X (FragmentDocs \cup QueryDocs \cup FullDocs))
    \cup ({SchemaNoMutation} \X FullDocs)
    \cup {<<ScenarioASchema, ScenarioADocument>>}
    \cup ({SchemaNodeFriend} \X NodeFriendDocs)
    \cup ({SchemaLists} \X ListDocs)

(***************************************************************************)
(* SpecGen: gen as a state machine, one step per element of the loops of   *)
(* gen_fragments, gen_queries and gen_mutations.                           *)
(***************************************************************************)
Runs == 2

InitGen ==
    /\ LexIdle
    /\ ParseIdle
    /\ LoadIdle
    /\ FileIdle
    /\ \E in \in GenInputs : schema = in[1] /\ document = in[2]
    /\ codegen = NewCodegen
    /\ gphase = "fragments"
    /\ gindex = 0
    /\ gresult = "none"
    /\ outs = <<>>

\* The Codegen after the statements cmds; a panic ends gen.
GenAfter(g) ==
    /\ codegen' = g
    /\ gindex' = gindex + 1
    /\ gresult' = IF g.st = "ok" THEN "none" ELSE "panic"
    /\ UNCHANGED <<schema, document, gphase, outs>>

\* gen_fragments: one iteration of its loop.
GenFragment ==
    /\ gresult = "none" /\ gphase = "fragments"
    /\ gindex < Len(document.fragments)
    /\ \E iter \in IterOrders(find_fragments(document.fragments[gindex + 1].fields)) :
         GenAfter(Run(codegen,
                      gen_fragment(schema, document.fragments[gindex + 1], iter)))
    /\ UNCHANGED <<lexvars, parsevars, loadvars, filevars>>

\* The unwrap of a root at the start of gen_queries or gen_mutations.
GenRoot(root, phase) ==
    /\ gphase' = phase
    /\ gindex' = 0
    /\ gresult' = IF root = MissingType THEN "panic" ELSE "none"
    /\ UNCHANGED <<schema, document, codegen, outs, lexvars, parsevars,
                   loadvars, filevars>>

\* gen_queries: `self.schema.query_root().unwrap()`.
GenQueriesRoot ==
    /\ gresult = "none" /\ gphase = "fragments"
    /\ gindex = Len(document.fragments)
    /\ GenRoot(query_root(schema), "queries")

\* gen_queries: one iteration of its loop.
GenQuery ==
    /\ gresult = "none" /\ gphase = "queries"
    /\ gindex < Len(document.queries)
    /\ \E iter \in IterOrders(find_fragments(document.queries[gindex + 1].fields)) :
         GenAfter(Run(codegen,
                      gen_api_for(schema, "query", query_root(schema),
                                  document.queries[gindex + 1].name,
                                  document.queries[gindex + 1].args,
                                  document.queries[gindex + 1].fields, iter)))
    /\ UNCHANGED <<lexvars, parsevars, loadvars, filevars>>

\* gen_mutations: `self.schema.mutation_root().unwrap()`.
GenMutationsRoot ==
    /\ gresult = "none" /\ gphase = "queries"
    /\ gindex = Len(document.queries)
    /\ GenRoot(mutation_root(schema), "mutations")

\* gen_mutations: one iteration of its loop.
GenMutation ==
    /\ gresult = "none" /\ gphase = "mutations"
    /\ gindex < Len(document.mutations)
    /\ \E iter \in IterOrders(find_fragments(document.mutations[gindex + 1].fields)) :
         GenAfter(Run(codegen,
                      gen_api_for(schema, "mutation", mutation_root(schema),
                                  document.mutations[gindex + 1].name,
                                  document.mutations[gindex + 1].args,
                                  document.mutations[gindex + 1].fields, iter)))
    /\ UNCHANGED <<lexvars, parsevars, loadvars, filevars>>

\* gen: `return codegen.src`.
GenReturn ==
    /\ gresult = "none" /\ gphase = "mutations"
    /\ gindex = Len(document.mutations)
    /\ gresult' = "Ok"
    /\ outs' = Append(outs, [document |-> document, src |-> codegen.src])
    /\ UNCHANGED <<schema, document, codegen, gphase, gindex, lexvars, parsevars,
                   loadvars, filevars>>

\* A further run of gen, on the same schema and on the same document or
\* on it with its fragment declarations in another order.
GenAgain ==
    /\ gresult = "Ok"
    /\ Len(outs) < Runs
    /\ document' \in { [document EXCEPT !.fragments = decls] :
                         decls \in Arrangements(document.fragments) }
    /\ codegen' = NewCodegen
    /\ gphase' = "fragments"
    /\ gindex' = 0
    /\ gresult' = "none"
    /\ UNCHANGED <<schema, outs, lexvars, parsevars, loadvars, filevars>>

NextGen ==
    \/ GenFragment
    \/ GenQueriesRoot
    \/ GenQuery
    \/ GenMutationsRoot
    \/ GenMutation
    \/ GenReturn
    \/ GenAgain

SpecGen == InitGen /\ [][NextGen]_vars

(***************************************************************************)
(* Reading the text gen returns.  `out` is the sequence of the pieces      *)
(* appended to src, in order.                                              *)
(***************************************************************************)
RECURSIVE TextFrom(_, _, _)
TextFrom(out, lo, hi) ==
    IF lo > hi THEN ""
    ELSE IF lo = hi THEN out[lo]
    ELSE TextFrom(out, lo, (lo + hi) \div 2)
         \o TextFrom(out, (lo + hi) \div 2 + 1, hi)

\* The bytes of the text: its pieces one after the other.
Text(out) == TextFrom(out, 1, Len(out))

\* The positions of a set of pieces, the k-th of a set of positions, and
\* the first of a set of positions after j (0 if none).
Where(out, pieces) == { j \in 1..Len(out) : out[j] \in pieces }
Nth(positions, k) ==
    CHOOSE j \in positions : Cardinality({ m \in positions : m < j }) = k - 1
After(positions, j) ==
    IF \E m \in positions : m > j
    THEN CHOOSE m \in positions :
            m > j /\ \A n \in positions : n > j => m <= n
    ELSE 0

\* The run of gen that has just returned.
LastRun == outs[Len(outs)]

\* The operations of a document in the order gen renders them, each with
\* the schema type that governs its selection.
Operations(sch, doc) ==
    [k \in 1..Len(doc.fragments) |->
        [name |-> doc.fragments[k].name,
         base |-> get_named(sch, doc.fragments[k].on),
         fields |-> doc.fragments[k].fields]]
    \o [k \in 1..Len(doc.queries) |->
        [name |-> doc.queries[k].name, base |-> query_root(sch),
         fields |-> doc.queries[k].fields]]
    \o [k \in 1..Len(doc.mutations) |->
        [name |-> doc.mutations[k].name, base |-> mutation_root(sch),
         fields |-> doc.mutations[k].fields]]

\* The dependency lists of a text, in order: each starts after one of
\* DepMarkers and runs from "[" to the next "]".
DepMarkers == {"static let fragments : [String] = ", "\", fragments: "}
IsName(piece) == piece \notin {"\"", ","}
DepLists(out) ==
    LET starts == Where(out, DepMarkers)
        ends == Where(out, {"]"})
    IN  [k \in 1..Cardinality(starts) |->
            SelectSeq(SubSeq(out, Nth(starts, k) + 2,
                             After(ends, Nth(starts, k)) - 1), IsName)]
Elements(seq) == { seq[n] : n \in 1..Len(seq) }

\* The dependency sets of a run, by the name of the operation.
DepSets(run) ==
    LET ops == Operations(schema, run.document)
        lists == DepLists(run.src)
    IN  { <<ops[k].name, Elements(lists[k])>> : k \in 1..Len(ops) }

\* C8: the dependency list gen emits for a fragment or an operation holds
\* exactly the names of the fragments spread anywhere in its selection,
\* through plain fields and inline fragments, each name once; and two runs
\* on documents that differ only in the order of the fragment declarations
\* give every fragment and operation the same dependency set.
C8_DependencyList ==
    gresult = "Ok" =>
        LET ops == Operations(schema, LastRun.document)
            lists == DepLists(LastRun.src)
        IN  /\ Len(lists) = Len(ops)
            /\ \A k \in 1..Len(ops) :
                /\ Elements(lists[k]) = SpreadNames(ops[k].fields)
                /\ Len(lists[k]) = Cardinality(Elements(lists[k]))
            /\ \A r \in 1..Len(outs) : DepSets(outs[r]) = DepSets(LastRun)

\* Two runs whose documents declare the fragments in different orders, of
\* a query that spreads one fragment twice, inside an inline fragment and
\* beside it, and another one.
C8_Witness ==
    /\ Len(outs) = 2
    /\ outs[1].document.fragments # outs[2].document.fragments
    /\ Len(outs[1].document.queries) = 1
    /\ outs[1].document.queries[1].fields =
         <<Sub("node", <<On("Human", <<Sp("humanFrag"), F("name")>>),
                         Sp("humanFrag"), Sp("droidFrag")>>)>>

RECURSIVE Governing(_, _, _)
\* The kinds of the schema types that govern the selections of a
\* selection tree, the selection itself first and then those below it in
\* the order of the text; an empty selection is not printed.
Governing(sch, object_type, fields) ==
    IF Len(fields) = 0 THEN <<>>
    ELSE <<object_type.kind>>
         \o Concat([k \in 1..Len(fields) |->
              CASE fields[k].f = "PlainField" ->
                     IF Len(fields[k].fields) = 0 THEN <<>>
                     ELSE Governing(sch,
                            get_named(sch, object_type.fields[fields[k].name].of_type),
                            fields[k].fields)
                [] fields[k].f = "InlineFragment" ->
                     Governing(sch, get(sch, fields[k].on.name), fields[k].fields)
                [] OTHER -> <<>>])

GoverningAll(sch, doc) ==
    Concat([k \in 1..Len(Operations(sch, doc)) |->
        Governing(sch, Operations(sch, doc)[k].base,
                  Operations(sch, doc)[k].fields)])

\* The reprinted GraphQL texts of an output: the positions between one of
\* QlOpen and the next of QlClose.
QlOpen == {"static let graphql = \"\"\"", ", graphql: \"\"\""}
QlClose == {"\"\"\"", "\"\"\")"}
InQl(out) ==
    LET closes == Where(out, QlClose)
    IN  UNION { (s + 1)..(After(closes, s) - 1) : s \in Where(out, QlOpen) }

\* The first element of the selection that the brace at j opens.
FirstElement(out, j) ==
    out[CHOOSE m \in (j + 1)..Len(out) :
          /\ out[m] \notin {"\n", "    "}
          /\ \A n \in (j + 1)..(m - 1) : out[n] \in {"\n", "    "}]

\* C9: in the reprinted text of every fragment and operation, a selection
\* starts with `__typename` exactly when the schema type that governs it
\* is an Interface, at every depth, and there is no other `__typename`.
C9_TypenameInjection ==
    gresult = "Ok" =>
        LET out == LastRun.src
            ql == InQl(out)
            braces == Where(out, {" {"}) \cap ql
            kinds == GoverningAll(schema, LastRun.document)
        IN  /\ Cardinality(braces) = Len(kinds)
            /\ \A k \in 1..Len(kinds) :
                 (FirstElement(out, Nth(braces, k)) = "__typename")
                 <=> (kinds[k] = "Interface")
            /\ Cardinality(Where(out, {"__typename"}) \cap ql)
                 = Cardinality({ k \in 1..Len(kinds) : kinds[k] = "Interface" })

\* A finished run on a fragment on the interface Node whose inline
\* fragment on Human selects the Node-typed field friend, and a fragment
\* on Human with an inline fragment on Node: selections on an Interface at
\* top level, under a plain field and under an inline fragment, and
\* selections on objects between them.
C9_Witness ==
    /\ gresult = "Ok"
    /\ Len(LastRun.document.fragments) = 2
    /\ LastRun.document.fragments[1].on = TypeInput("Node")
    /\ LastRun.document.fragments[1].fields =
         <<On("Human", <<F("name"),
              Sub("friend", <<On("Droid", <<F("model")>>)>>)>>)>>
    /\ LastRun.document.fragments[2].fields = <<On("Node", <<F("id")>>)>>
    /\ GoverningAll(schema, LastRun.document) =
         <<"Interface", "Object", "Interface", "Object", "Object",
           "Interface">>

(***************************************************************************)
(* The sum types and type definitions of a text.                           *)
(***************************************************************************)
Switch == "switch try container.decode(String.self, forKey: .__typename)"
Default == "default: throw UnknownTypename()"

\* The decoders of the sum types of a text that end in the arm that
\* throws: each as the sequence of its arms, an arm being the discriminator
\* string it matches, the tag of the case it selects and the type of the
\* payload it decodes.
Decoders(out) ==
    LET defaults == Where(out, {Default})
        switches == Where(out, {Switch})
        arms == Where(out, {"case \""})
        Of(s) == { a \in arms :
                     /\ a > s /\ a < After(defaults, s)
                     /\ \A t \in switches : ~(s < t /\ t < a) }
    IN  { [k \in 1..Cardinality(Of(s)) |->
             [discriminator |-> out[Nth(Of(s), k) + 1],
              tag |-> out[Nth(Of(s), k) + 3],
              payload |-> out[Nth(Of(s), k) + 5]]] :
          s \in { t \in switches : After(defaults, t) # 0 } }

\* The names of the types a text defines.
TypeDefs(out) ==
    { out[j + 2] : j \in { m \in Where(out, {"struct", "enum"}) :
                             out[m + 1] = " " } }

\* The root fields of the operations of a document that have a selection.
RootFields(sch, doc) ==
    { [object_type |-> get_type_of_field(sch, query_root(sch), f.name),
       name |-> f.name, fields |-> f.fields] :
        f \in { g \in UNION { Elements(doc.queries[k].fields) :
                               k \in 1..Len(doc.queries) } :
                  g.f = "PlainField" /\ Len(g.fields) > 0 } }

\* The selections of a document whose type gen renders: those of its
\* fragments and those of the root fields of its queries.
Rendered(sch, doc) ==
    { [object_type |-> get_named(sch, doc.fragments[k].on),
       name |-> doc.fragments[k].name, fields |-> doc.fragments[k].fields] :
        k \in 1..Len(doc.fragments) }
    \cup RootFields(sch, doc)

\* The name of the schema type a fragment of the document is declared on.
TypeCondition(sch, doc, name) ==
    get_named(sch, doc.fragments[CHOOSE k \in 1..Len(doc.fragments) :
                                   doc.fragments[k].name = name].on).name

\* The selection is two or more fragment spreads, all declared in doc.
OnlySpreads(doc, fields) ==
    /\ Len(fields) >= 2
    /\ \A k \in 1..Len(fields) :
        /\ fields[k].f = "Fragment"
        /\ \E n \in 1..Len(doc.fragments) :
             doc.fragments[n].name = fields[k].name

\* C4: when gen returns, a selection on an Interface that is two or more
\* fragment spreads has a sum type with one case per spread whose decoder
\* matches, for each spread in order, the name of the schema type the
\* spread fragment is declared on and selects the case tagged with that
\* name, and throws for any other discriminator.
C4_SpreadCaseTags ==
    gresult = "Ok" =>
        \A sel \in Rendered(schema, LastRun.document) :
            (sel.object_type.kind = "Interface"
             /\ OnlySpreads(LastRun.document, sel.fields))
            => \E arms \in Decoders(LastRun.src) :
                /\ Len(arms) = Len(sel.fields)
                /\ \A k \in 1..Len(arms) :
                    /\ arms[k].discriminator =
                         TypeCondition(schema, LastRun.document,
                                       sel.fields[k].name)
                    /\ arms[k].tag = arms[k].discriminator

\* The selection is inline fragments only.
OnlyInline(fields) ==
    /\ Len(fields) >= 1
    /\ \A k \in 1..Len(fields) : fields[k].f = "InlineFragment"

\* The payload type of the case of an inline fragment: its sole fragment's
\* type, or the type of the name of its type condition.
PayloadOf(inline) ==
    IF sole_fragment(inline.fields) # <<>>
    THEN swift_name(sole_fragment(inline.fields)[1])
    ELSE inline.on.name

\* C5: when gen returns, a selection on an Interface made of inline
\* fragments only has a sum type with one case As<T>(<payload>) per inline
\* fragment, decoded on the discriminator T, and the text defines every
\* payload type that is not the type of a fragment.
C5_InlineCasesDefined ==
    gresult = "Ok" =>
        \A sel \in Rendered(schema, LastRun.document) :
            (sel.object_type.kind = "Interface" /\ OnlyInline(sel.fields))
            => /\ \E arms \in Decoders(LastRun.src) :
                    /\ Len(arms) = Len(sel.fields)
                    /\ \A k \in 1..Len(arms) :
                        /\ arms[k].discriminator = sel.fields[k].on.name
                        /\ arms[k].tag = sel.fields[k].on.name
                        /\ arms[k].payload = PayloadOf(sel.fields[k])
               /\ \A k \in 1..Len(sel.fields) :
                    /\ ("case As" \o sel.fields[k].on.name \o "("
                          \o PayloadOf(sel.fields[k]) \o ")")
                         \in Elements(LastRun.src)
                    /\ sole_fragment(sel.fields[k].fields) = <<>>
                         => sel.fields[k].on.name \in TypeDefs(LastRun.src)

\* C6, at nested positions: the root field of a query whose selection is
\* the sole spread of a fragment gets no type of its own, and its property
\* has the capitalized name of the fragment as its type.
SoleNested ==
    \A sel \in RootFields(schema, LastRun.document) :
        sole_fragment(sel.fields) # <<>>
        => /\ swift_name(sel.name) \notin TypeDefs(LastRun.src)
           /\ \E j \in Where(LastRun.src, {"var "}) :
                /\ LastRun.src[j + 1] = sel.name
                /\ LastRun.src[j + 2] = " : "
                /\ LastRun.src[j + 3] = swift_name(sole_fragment(sel.fields)[1])

\* C6, in a sum type: the case of an inline fragment whose selection is
\* the sole spread of a fragment has the capitalized name of the fragment
\* as its payload.
SolePayload ==
    \A sel \in Rendered(schema, LastRun.document) :
        \A k \in 1..Len(sel.fields) :
            (/\ sel.object_type.kind = "Interface"
             /\ sel.fields[k].f = "InlineFragment"
             /\ sole_fragment(sel.fields[k].fields) # <<>>)
            => \E arms \in Decoders(LastRun.src) :
                 \E a \in 1..Len(arms) :
                    /\ arms[a].discriminator = sel.fields[k].on.name
                    /\ arms[a].payload =
                         swift_name(sole_fragment(sel.fields[k].fields)[1])

\* C6, at top level: a query whose selection is the sole spread of a
\* fragment defines no type Data, and what gen emits for it names the
\* capitalized name of the fragment as the type of its result.
SoleTopLevel ==
    \A q \in 1..Len(LastRun.document.queries) :
        sole_fragment(LastRun.document.queries[q].fields) # <<>>
        => /\ "Data" \notin TypeDefs(LastRun.src)
           /\ \E h \in Where(LastRun.src,
                   {"struct " \o swift_name(LastRun.document.queries[q].name)
                      \o "Query : Encodable, GraphQLQuery"}) :
                \E j \in (h + 1)..Len(LastRun.src) :
                    LastRun.src[j] =
                      swift_name(sole_fragment(
                          LastRun.document.queries[q].fields)[1])

\* C6: when gen returns, a selection that is the sole spread of a fragment
\* Foo has made gen emit no type definition, and the property of the
\* enclosing field, the payload of the sum-type case and the result of the
\* top-level operation each have the capitalized name of Foo as type.
C6_SoleFragmentAlias ==
    gresult = "Ok" => SoleNested /\ SolePayload /\ SoleTopLevel

\* C7: two runs of gen on the same schema and document return the same
\* bytes.
C7_Deterministic ==
    gresult = "Ok" =>
        \A r \in 1..Len(outs) :
            outs[r].document = LastRun.document
            => Text(outs[r].src) = Text(LastRun.src)

(***************************************************************************)
(* schema.rs: the introspection document.  A serde_json::Value is a record *)
(* with its kind in j; the Map of an object is the record o, an array is   *)
(* the sequence a.  JPanic is what an access that panics has in hand:      *)
(* `unwrap` of None, or the index of a Map by a key it does not hold.      *)
(***************************************************************************)
JNull == [j |-> "null"]
JStr(s) == [j |-> "string", s |-> s]
JArr(a) == [j |-> "array", a |-> a]
JObj(o) == [j |-> "object", o |-> o]
JPanic == [j |-> "panic"]

\* value.as_object().unwrap()
obj(value) == IF value.j = "object" THEN value ELSE JPanic

\* value.as_str().unwrap()
str(value) == IF value.j = "string" THEN value ELSE JPanic

\* map[key], the Index of serde_json::Map: the value under the key, and a
\* panic when the map does not hold the key.
at(map, key) ==
    IF map.j = "object" /\ key \in DOMAIN map.o THEN map.o[key] ELSE JPanic

\* A Type around the inner one the recursive call returned, if it returned.
type_around(t, inner) ==
    IF inner = TypeMissing THEN TypeMissing ELSE [t |-> t, of |-> inner]

\* type_from, `"SCALAR" => match name.unwrap()`
type_from_scalar(name) ==
    CASE name.j # "string" -> TypeMissing
      [] name.s = "Int" -> TypeInt
      [] name.s = "Float" -> TypeFloat
      [] name.s = "Bool" -> TypeBool
      [] name.s = "String" -> TypeString
      [] OTHER -> TypeInput(name.s)

RECURSIVE type_from(_)
\* type_from; TypeMissing when it panics.
type_from(of_type) ==
    IF at(of_type, "name") = JPanic \/ str(at(of_type, "kind")) = JPanic
    THEN TypeMissing
    ELSE CASE at(of_type, "kind").s = "SCALAR" ->
                type_from_scalar(at(of_type, "name"))
           [] at(of_type, "kind").s = "NON_NULL" ->
                type_around("NonNull", type_from(obj(at(of_type, "ofType"))))
           [] at(of_type, "kind").s = "LIST" ->
                type_around("Array", type_from(obj(at(of_type, "ofType"))))
           [] at(of_type, "kind").s
                \in {"ENUM", "OBJECT", "INTERFACE", "INPUT_OBJECT"} ->
                IF at(of_type, "name").j = "string"
                THEN TypeInput(at(of_type, "name").s) ELSE TypeMissing
           [] OTHER -> TypeMissing

\* map_array_object: the elements func is called on, each unwrapped as an
\* object; none when the value is not an array.
map_array_object(value) ==
    IF value.j = "array"
    THEN [k \in 1..Len(value.a) |-> obj(value.a[k])]
    ELSE <<>>

\* args_from: the closure's Argument for each element.
args_from(args) ==
    [k \in 1..Len(map_array_object(args)) |->
        [name |-> str(at(map_array_object(args)[k], "name")),
         of_type |-> type_from(obj(at(map_array_object(args)[k], "type")))]]

\* The closure of fields_from: the Field of one element of `fields`.
field_from(field) ==
    [name |-> str(at(field, "name")),
     args |-> IF at(field, "args") = JPanic THEN JPanic
              ELSE args_from(at(field, "args")),
     of_type |-> type_from(obj(at(field, "type")))]

\* Whether building the Argument or the Field panicked.
unwound(f) == f.name = JPanic \/ f.of_type = TypeMissing

field_unwound(f) ==
    \/ unwound(f)
    \/ f.args = JPanic
    \/ \E k \in 1..Len(f.args) : unwound(f.args[k])

\* from, `let kind = match kind_str`
kind_from(kind_str) ==
    CASE kind_str = "OBJECT" -> "Object"
      [] kind_str = "INTERFACE" -> "Interface"
      [] kind_str = "SCALAR" -> "Scalar"
      [] kind_str = "INPUT_OBJECT" -> "InputObject"
      [] kind_str = "ENUM" -> "Enum"
      [] OTHER -> "Missing"

\* The Vec of Fields that fields_from maps `fields` to.
fields_of(of_type) ==
    [k \in 1..Len(map_array_object(at(of_type, "fields"))) |->
        field_from(map_array_object(at(of_type, "fields"))[k])]

\* from, the body of `for value in types`: the NamedType inserted, or
\* MissingType when the body panics.
named_type_from(of_type) ==
    IF \/ str(at(of_type, "name")) = JPanic
       \/ str(at(of_type, "kind")) = JPanic
       \/ kind_from(at(of_type, "kind").s) = "Missing"
       \/ at(of_type, "fields") = JPanic
       \/ \E k \in 1..Len(fields_of(of_type)) :
              field_unwound(fields_of(of_type)[k])
    THEN MissingType
    ELSE NamedType(at(of_type, "name").s, kind_from(at(of_type, "kind").s),
                   fields_from([k \in 1..Len(fields_of(of_type)) |->
                       SField(fields_of(of_type)[k].name.s,
                              fields_of(of_type)[k].of_type)]))

\* HashMap::insert
insert(map, key, value) ==
    [k \in DOMAIN map \cup {key} |-> IF k = key THEN value ELSE map[k]]

\* from, json_schema: the object under `__schema`, looked for in the object
\* under `data` when json_schema_resp["data"] is an object and in
\* json_schema_resp itself when it is another value.
json_schema(json_schema_resp) ==
    IF at(json_schema_resp, "data") = JPanic THEN JPanic
    ELSE obj(at(IF at(json_schema_resp, "data").j = "object"
                THEN at(json_schema_resp, "data")
                ELSE json_schema_resp, "__schema"))

(***************************************************************************)
(* The introspection documents given to from: the encodings of a few       *)
(* schemas in each layout, and documents that lack a part.                 *)
(***************************************************************************)
MaxTypes == 2

RECURSIVE type_json(_)
\* The `type` object an introspection response holds for a Type.
type_json(t) ==
    CASE t.t = "NonNull" ->
            JObj([kind |-> JStr("NON_NULL"), name |-> JNull,
                  ofType |-> type_json(t.of)])
      [] t.t = "Array" ->
            JObj([kind |-> JStr("LIST"), name |-> JNull,
                  ofType |-> type_json(t.of)])
      [] t.t = "Input" ->
            JObj([kind |-> JStr("OBJECT"), name |-> JStr(t.name),
                  ofType |-> JNull])
      [] OTHER ->
            JObj([kind |-> JStr("SCALAR"), name |-> JStr(t.t),
                  ofType |-> JNull])

KindStr(kind) ==
    CASE kind = "Object" -> "OBJECT"
      [] kind = "Interface" -> "INTERFACE"
      [] kind = "Scalar" -> "SCALAR"
      [] kind = "InputObject" -> "INPUT_OBJECT"
      [] kind = "Enum" -> "ENUM"

\* A declared type; the introspection response holds a null `fields` for
\* a kind other than Object and Interface.
Declared(name, kind, fields) ==
    [name |-> name, kind |-> kind, fields |-> fields]

field_json(f) ==
    JObj([name |-> JStr(f.name), args |-> JArr(<<>>),
          type |-> type_json(f.of_type)])

declared_json(d) ==
    JObj([kind |-> JStr(KindStr(d.kind)), name |-> JStr(d.name),
          fields |-> IF d.kind \in {"Object", "Interface"}
                     THEN JArr([k \in 1..Len(d.fields) |->
                                   field_json(d.fields[k])])
                     ELSE JNull])

DeclaredPool ==
    { Declared("Query", "Object",
               <<SField("user", TypeInput("User")),
                 SField("node", TypeNonNull(TypeInput("Node")))>>),
      Declared("User", "Object",
               <<SField("id", TypeNonNull(TypeInt)),
                 SField("name", TypeNonNull(TypeString)),
                 SField("tags", TypeArray(TypeNonNull(TypeString))),
                 SField("score", TypeFloat),
                 SField("key", TypeInput("ID"))>>),
      Declared("Node", "Interface", <<SField("id", TypeNonNull(TypeInt))>>),
      Declared("Role", "Enum", <<>>),
      Declared("Filter", "InputObject", <<>>),
      Declared("ID", "Scalar", <<>>) }

RECURSIVE Listed(_, _)
\* The sequences of at most n elements of a set.
Listed(set, n) ==
    IF n = 0 THEN {<<>>}
    ELSE Listed(set, n - 1)
         \cup { Append(l, e) : l \in { x \in Listed(set, n - 1) :
                                         Len(x) = n - 1 }, e \in set }

\* The content of a `__schema` object: the names of the roots and the
\* declared types.
Contents ==
    { [query |-> "Query", mutation |-> "Mutation", types |-> l] :
        l \in Listed(DeclaredPool, MaxTypes) }

content_json(c) ==
    JObj([queryType |-> JObj([name |-> JStr(c.query)]),
          mutationType |-> JObj([name |-> JStr(c.mutation)]),
          types |-> JArr([k \in 1..Len(c.types) |->
                             declared_json(c.types[k])])])

\* The layouts: `__schema` at the top and no `data`, `__schema` in the
\* object under `data`, and `__schema` at the top beside a null `data`.
Bare(c) == JObj([__schema |-> content_json(c)])
Enveloped(c) == JObj([data |-> JObj([__schema |-> content_json(c)])])
BesideNull(c) == JObj([data |-> JNull, __schema |-> content_json(c)])

\* The Schema that holds the content c.
SchemaOf(c) ==
    Schema(c.query, c.mutation,
           types_from([k \in 1..Len(c.types) |->
               NamedType(c.types[k].name, c.types[k].kind,
                         fields_from(c.types[k].fields))]))

\* Documents that lack a part from consumes.
Lacking ==
    { JArr(<<>>),
      JObj([data |-> JObj([errors |-> JArr(<<>>)])]),
      JObj([data |-> JObj([__schema |-> JNull])]),
      JObj([data |-> JObj([__schema |-> JObj(
          [queryType |-> JObj([name |-> JStr("Query")]),
           mutationType |-> JNull,
           types |-> JArr(<<>>)])])]),
      JObj([data |-> JObj([__schema |-> JObj(
          [queryType |-> JObj([name |-> JNull]),
           mutationType |-> JObj([name |-> JStr("Mutation")]),
           types |-> JArr(<<>>)])])]),
      JObj([data |-> JObj([__schema |-> JObj(
          [queryType |-> JObj([name |-> JStr("Query")]),
           mutationType |-> JObj([name |-> JStr("Mutation")]),
           types |-> JArr(<<
               JObj([kind |-> JStr("UNION"), name |-> JStr("Hit"),
                     fields |-> JNull])>>)])])]),
      JObj([data |-> JObj([__schema |-> JObj(
          [queryType |-> JObj([name |-> JStr("Query")]),
           mutationType |-> JObj([name |-> JStr("Mutation")]),
           types |-> JArr(<<
               JObj([kind |-> JStr("OBJECT"), name |-> JStr("Query"),
                     fields |-> JArr(<<
                         JObj([name |-> JStr("user"), args |-> JArr(<<>>),
                               type |-> JObj([kind |-> JStr("NON_NULL"),
                                              name |-> JNull,
                                              ofType |-> JNull])])>>)])
               >>)])])]) }

LoadInputs ==
    { Bare(c) : c \in Contents } \cup { Enveloped(c) : c \in Contents }
    \cup { BesideNull(c) : c \in Contents } \cup Lacking

(***************************************************************************)
(* SpecLoad: schema::from as a state machine, one step for what precedes   *)
(* its loop, one per element of `types`, and one for its return.           *)
(***************************************************************************)
\* json_schema["types"], when from reached its loop.
LoadTypes == at(json_schema(json), "types").a

\* serde_json::from_str into a Map, and the statements up to the loop.
SchemaOpen ==
    /\ sresult = "start"
    /\ sresult' =
         CASE json.j # "object" -> "Err"
           [] \/ json_schema(json) = JPanic
              \/ obj(at(json_schema(json), "queryType")) = JPanic
              \/ obj(at(json_schema(json), "mutationType")) = JPanic
              \/ at(json_schema(json), "types").j # "array" -> "panic"
           [] OTHER -> "none"
    /\ UNCHANGED <<json, types_result, sindex, schema, document, codegen,
                   gphase, gindex, gresult, outs, lexvars, parsevars,
                   filevars>>

\* One iteration of `for value in types`.
SchemaType ==
    /\ sresult = "none"
    /\ sindex < Len(LoadTypes)
    /\ sindex' = sindex + 1
    /\ IF named_type_from(obj(LoadTypes[sindex + 1])) = MissingType
       THEN sresult' = "panic" /\ UNCHANGED types_result
       ELSE /\ types_result' =
                 insert(types_result,
                        named_type_from(obj(LoadTypes[sindex + 1])).name,
                        named_type_from(obj(LoadTypes[sindex + 1])))
            /\ UNCHANGED sresult
    /\ UNCHANGED <<json, schema, document, codegen, gphase, gindex, gresult,
                   outs, lexvars, parsevars, filevars>>

\* Ok(Schema{..}) with the names of the roots.
SchemaReturn ==
    /\ sresult = "none"
    /\ sindex = Len(LoadTypes)
    /\ IF \/ str(at(at(json_schema(json), "queryType"), "name")) = JPanic
          \/ str(at(at(json_schema(json), "mutationType"), "name")) = JPanic
       THEN sresult' = "panic" /\ UNCHANGED schema
       ELSE /\ sresult' = "Ok"
            /\ schema' =
                 Schema(at(at(json_schema(json), "queryType"), "name").s,
                        at(at(json_schema(json), "mutationType"), "name").s,
                        types_result)
    /\ UNCHANGED <<json, types_result, sindex, document, codegen, gphase,
                   gindex, gresult, outs, lexvars, parsevars, filevars>>

InitLoad ==
    /\ LexIdle
    /\ ParseIdle
    /\ GenIdle
    /\ FileIdle
    /\ json \in LoadInputs
    /\ types_result = <<>>
    /\ sindex = 0
    /\ sresult = "start"

NextLoad ==
    \/ SchemaOpen
    \/ SchemaType
    \/ SchemaReturn

SpecLoad == InitLoad /\ [][NextLoad]_vars

(***************************************************************************)
(* Claims about schema::from, checked under SpecLoad.                      *)
(***************************************************************************)
\* C12: from builds the Schema from the document in both layouts, the one
\* with `__schema` at the top and no `data` and the one with `__schema` in
\* the object under `data`: once from has ended on either layout of a
\* content it has returned Ok with the Schema that holds this content, the
\* same in both.
C12_BothLayouts ==
    \A c \in Contents :
        (json \in {Bare(c), Enveloped(c)} /\ sresult \notin {"start", "none"})
        => /\ sresult = "Ok"
           /\ schema = SchemaOf(c)

(***************************************************************************)
(* Scenario A, checked under SpecGen.                                      *)
(***************************************************************************)
\* The pieces newline appends.
Blank == {"\n", "    "}

\* The first and the last piece of the reprinted text that is not blank.
QlFirst(out) ==
    CHOOSE j \in InQl(out) :
        out[j] \notin Blank /\ \A m \in InQl(out) : m < j => out[m] \in Blank
QlLast(out) ==
    CHOOSE j \in InQl(out) :
        out[j] \notin Blank /\ \A m \in InQl(out) : m > j => out[m] \in Blank

RECURSIVE Squeezed(_, _, _)
\* The text of the pieces lo..hi with one space for each run of blank
\* pieces.
Squeezed(out, lo, hi) ==
    IF lo > hi THEN ""
    ELSE (IF out[lo] \notin Blank THEN out[lo]
          ELSE IF out[lo - 1] \in Blank THEN "" ELSE " ")
         \o Squeezed(out, lo + 1, hi)

\* The type Data declares, in itself or in a type nested in it, the
\* property `name` of the type `type`, with no optional marker.
DataProperty(out, name, type) ==
    \E d \in Where(out, {"Data"}) :
        /\ out[d - 2] = "struct"
        /\ \E j \in (d + 1)..(Len(out) - 4) :
              /\ out[j] = "var " /\ out[j + 1] = name /\ out[j + 2] = " : "
              /\ out[j + 3] = type /\ out[j + 4] # "?"

ScenarioAReturned ==
    /\ gresult = "Ok"
    /\ schema = ScenarioASchema
    /\ document = ScenarioADocument

\* Scenario A: the properties of Data and the empty `fragments` list.
ScenarioATypes ==
    /\ DataProperty(LastRun.src, "id", "Int")
    /\ DataProperty(LastRun.src, "name", "String")
    /\ DepLists(LastRun.src) = << <<>> >>

\* C13 as stated: in Scenario A the generated Data type has the non-optional
\* properties id : Int and name : String, the `fragments` list is empty,
\* and the emitted `graphql` text is exactly
\* `query GetUser { user { id name } }`.
C13_ScenarioAExactText ==
    ScenarioAReturned =>
        /\ ScenarioATypes
        /\ TextFrom(LastRun.src, QlFirst(LastRun.src), QlLast(LastRun.src))
             = "query GetUser { user { id name } }"

\* C13 amended: in Scenario A the generated Data type has the non-optional
\* properties id : Int and name : String, the `fragments` list is empty,
\* and the emitted `graphql` text is `query GetUser { user { id name } }`
\* laid out with a newline and indentation in place of the spaces after
\* `{`, between the fields and before `}`.
C13_ScenarioALaidOut ==
    ScenarioAReturned =>
        /\ ScenarioATypes
        /\ Squeezed(LastRun.src, QlFirst(LastRun.src), QlLast(LastRun.src))
             = "query GetUser { user { id name } }"
        /\ \A j \in QlFirst(LastRun.src)..QlLast(LastRun.src) :
              LastRun.src[j] = "\n" =>
                  LastRun.src[j - 1] \in {" {", "id", "name", "}"}

C13_Witness ==
    /\ ScenarioAReturned
    /\ Len(LastRun.src) > 0

(***************************************************************************)
(* The argument values of the reprinted text, checked under SpecGen.       *)
(***************************************************************************)
RECURSIVE ArgumentsIn(_)
\* The arguments of the plain fields of a selection, at every depth.
ArgumentsIn(fields) ==
    UNION { (IF fields[k].f = "PlainField"
             THEN Elements(fields[k].args) ELSE {})
            \cup (IF fields[k].f = "Fragment" THEN {}
                  ELSE ArgumentsIn(fields[k].fields)) :
            k \in 1..Len(fields) }

\* The arguments of the fields of every operation of a document.
ArgumentsOf(doc) ==
    UNION { ArgumentsIn(doc.fragments[k].fields) :
              k \in 1..Len(doc.fragments) }
    \cup UNION { ArgumentsIn(doc.queries[k].fields) :
                   k \in 1..Len(doc.queries) }
    \cup UNION { ArgumentsIn(doc.mutations[k].fields) :
                   k \in 1..Len(doc.mutations) }

\* Where the reprinted text names the argument of a field: its name, then
\* ` : ` (the name of a parameter of the operation follows a `$`).
ArgumentAt(out, name) ==
    { j \in InQl(out) :
        out[j] = name /\ out[j + 1] = " : " /\ out[j - 1] # "$" }

\* The text of the value of the argument named at j: what stands between
\* the ` : ` and the `, ` or `)` that follows.
ValueText(out, j) ==
    TextFrom(out, j + 2, After(Where(out, {", ", ")"}), j) - 1)

\* The text of a value as the specification gives it: an Int as its decimal
\* digits, a String between double quotes, a Variable after `$`, `true`,
\* and `false` with the space of the reference behaviour.
StatedText(value) ==
    CASE value.v = "Int" -> ToString(value.val)
      [] value.v = "String" -> "\"" \o value.val \o "\""
      [] value.v = "Variable" -> "$" \o value.val
      [] value.v = "Bool" -> IF value.val THEN "true" ELSE "false "

\* The arguments of the last run whose value is of one of the kinds have
\* that text in the reprinted text.
ValuesReprinted(kinds) ==
    \A a \in ArgumentsOf(LastRun.document) :
        a.value.v \in kinds =>
            /\ ArgumentAt(LastRun.src, a.name) # {}
            /\ \A j \in ArgumentAt(LastRun.src, a.name) :
                  ValueText(LastRun.src, j) = StatedText(a.value)

\* C14: in the reprinted text a boolean argument value `true` is exactly
\* `true`, and `false` is `false` followed by one space before the next
\* token.
C14_BoolReprint ==
    gresult = "Ok" => ValuesReprinted({"Bool"})

C14_Witness ==
    /\ gresult = "Ok"
    /\ \E a \in ArgumentsOf(LastRun.document) :
          a.value.v = "Bool" /\ ~a.value.val
    /\ \E a \in ArgumentsOf(LastRun.document) :
          a.value.v = "Bool" /\ a.value.val

\* C20: in the reprinted text an argument value is emitted by kind with
\* nothing added: an Int as its decimal digits, a String as its text
\* between double quotes, a Variable as `$` and its name.
C20_ValuesVerbatim ==
    gresult = "Ok" => ValuesReprinted({"Int", "String", "Variable"})

(***************************************************************************)
(* file.rs: the file system find_graphql_files reads.  An entry of a       *)
(* directory is a file or a directory; `ext` is the extension of its path  *)
(* ("" for none), `mtime` its modification time, and `ok` tells whether    *)
(* the call that reads it succeeds: metadata for a file (it fails for a    *)
(* link whose target is gone), read_dir for a directory.  The entries of   *)
(* a directory are in the order read_dir yields them.                      *)
(***************************************************************************)
FileEntry(path, ext, mtime, ok) ==
    [kind |-> "file", path |-> path, ext |-> ext, mtime |-> mtime,
     ok |-> ok, entries |-> <<>>]
DirEntry(path, ok, entries) ==
    [kind |-> "dir", path |-> path, ext |-> "", mtime |-> 0, ok |-> ok,
     entries |-> entries]

\* file.rs, File
File(path, modified) == [path |-> path, modified |-> modified]

\* A call of visit_dir in progress: the entries of its directory and how
\* many of them its loop has done.
Visit(dir) == [entries |-> dir.entries, i |-> 0]

\* `let last_updated = std::fs::metadata(output)?.modified()?`
last_updated == fs.output.mtime

\* The call of visit_dir that is running, the entry its loop is at, and
\* the stack once the loop has passed that entry.
Visiting == fstack[Len(fstack)]
VisitRunning ==
    /\ fresult.st = "none"
    /\ fstack # <<>>
    /\ Visiting.i < Len(Visiting.entries)
Entry == Visiting.entries[Visiting.i + 1]
Passed == [fstack EXCEPT ![Len(fstack)].i = @ + 1]

(***************************************************************************)
(* SpecFile: find_graphql_files as a state machine, one step per entry     *)
(* visit_dir reads and one per return.                                     *)
(***************************************************************************)
\* find_graphql_files up to its call of visit_dir, and the read_dir of
\* that call; each `?` returns the error.
FindStart ==
    /\ fresult.st = "start"
    /\ IF fs.output.ok /\ fs.root.ok
       THEN /\ fstack' = <<Visit(fs.root)>>
            /\ fresult' = [fresult EXCEPT !.st = "none"]
       ELSE /\ fresult' = [fresult EXCEPT !.st = "Err"]
            /\ UNCHANGED fstack
    /\ UNCHANGED <<fs, files, lexvars, parsevars, genvars, loadvars>>

\* `if path.is_dir() { visit_dir(&path, last_updated, result); }`: the
\* call begins when its read_dir succeeds; the Err it returns when it
\* fails is dropped.
VisitDir ==
    /\ VisitRunning
    /\ Entry.kind = "dir"
    /\ fstack' = IF Entry.ok THEN Append(Passed, Visit(Entry)) ELSE Passed
    /\ UNCHANGED <<fs, files, fresult, lexvars, parsevars, genvars, loadvars>>

\* `else if let Some(extension) = path.extension()`: the metadata of the
\* file, and the push when the extension is graphql.  When metadata fails
\* this call of visit_dir returns the error: find_graphql_files returns it
\* if it is the outermost call, and the caller drops it if it is not.
VisitFile ==
    /\ VisitRunning
    /\ Entry.kind = "file" /\ Entry.ext # ""
    /\ IF Entry.ok
       THEN /\ fstack' = Passed
            /\ files' = IF Entry.ext = "graphql"
                        THEN Append(files,
                                    File(Entry.path,
                                         Entry.mtime > last_updated))
                        ELSE files
            /\ UNCHANGED fresult
       ELSE /\ fstack' = SubSeq(fstack, 1, Len(fstack) - 1)
            /\ fresult' = IF Len(fstack) = 1
                          THEN [fresult EXCEPT !.st = "Err"] ELSE fresult
            /\ UNCHANGED files
    /\ UNCHANGED <<fs, lexvars, parsevars, genvars, loadvars>>

\* A file whose path has no extension: nothing.
VisitOther ==
    /\ VisitRunning
    /\ Entry.kind = "file" /\ Entry.ext = ""
    /\ fstack' = Passed
    /\ UNCHANGED <<fs, files, fresult, lexvars, parsevars, genvars, loadvars>>

\* The end of the loop of visit_dir: Ok(()).
VisitReturn ==
    /\ fresult.st = "none"
    /\ fstack # <<>>
    /\ Visiting.i = Len(Visiting.entries)
    /\ fstack' = SubSeq(fstack, 1, Len(fstack) - 1)
    /\ UNCHANGED <<fs, files, fresult, lexvars, parsevars, genvars, loadvars>>

\* `let modified = result.iter().any(|f| f.modified); Ok((modified, result))`
FindReturn ==
    /\ fresult.st = "none"
    /\ fstack = <<>>
    /\ fresult' = [st |-> "Ok",
                   modified |-> \E k \in 1..Len(files) : files[k].modified]
    /\ UNCHANGED <<fs, fstack, files, lexvars, parsevars, genvars, loadvars>>

(***************************************************************************)
(* The file systems given to find_graphql_files: an output artifact of     *)
(* modification time 2, and a directory of at most MaxEntries              *)
(* entries, one of them a directory, with files older than, as old as and  *)
(* newer than the output.                                                  *)
(***************************************************************************)
MaxEntries == 3

\* The files the directory of path `dir` may hold: per name, its variants.
FilesAt(dir) ==
    { { FileEntry(dir \o "a.graphql", "graphql", t, TRUE) : t \in 1..3 },
      { FileEntry(dir \o "b.graphql", "graphql", t, TRUE) : t \in {1, 3} },
      { FileEntry(dir \o "notes.txt", "txt", 3, TRUE) },
      { FileEntry(dir \o "Makefile", "", 3, TRUE) },
      { FileEntry(dir \o "link.txt", "txt", 0, FALSE) } }

RECURSIVE Orders(_, _)
\* The sequences of at most n entries with one variant of each of some of
\* the names.
Orders(names, n) ==
    IF n = 0 THEN {<<>>}
    ELSE {<<>>} \cup
         UNION { { <<e>> \o rest : e \in name,
                                   rest \in Orders(names \ {name}, n - 1) } :
                 name \in names }

Subdirectories ==
    { DirEntry("sub", TRUE, entries) : entries \in Orders(FilesAt("sub/"), 2) }
    \cup { DirEntry("sub", FALSE, <<>>) }

FileSystems ==
    { [output |-> [ok |-> TRUE, mtime |-> 2],
       root |-> DirEntry("", TRUE, entries)] :
        entries \in Orders(FilesAt("") \cup {Subdirectories}, MaxEntries) }
    \cup { [output |-> [ok |-> FALSE, mtime |-> 0],
            root |-> DirEntry("", TRUE, <<>>)],
           [output |-> [ok |-> TRUE, mtime |-> 2],
            root |-> DirEntry("", FALSE, <<>>)] }

InitFile ==
    /\ LexIdle
    /\ ParseIdle
    /\ GenIdle
    /\ LoadIdle
    /\ fs \in FileSystems
    /\ fstack = <<>>
    /\ files = <<>>
    /\ fresult = [st |-> "start", modified |-> FALSE]

NextFile ==
    \/ FindStart
    \/ VisitDir
    \/ VisitFile
    \/ VisitOther
    \/ VisitReturn
    \/ FindReturn

SpecFile == InitFile /\ [][NextFile]_vars

(***************************************************************************)
(* Claims about find_graphql_files, checked under SpecFile.                *)
(***************************************************************************)
RECURSIVE GraphqlUnder(_)
\* The `*.graphql` files under a directory, in it and in the directories
\* under it that can be read.
GraphqlUnder(dir) ==
    IF ~dir.ok THEN {}
    ELSE { dir.entries[k] : k \in { n \in 1..Len(dir.entries) :
                                      /\ dir.entries[n].kind = "file"
                                      /\ dir.entries[n].ext = "graphql" } }
         \cup UNION { GraphqlUnder(dir.entries[k]) :
                        k \in { n \in 1..Len(dir.entries) :
                                  dir.entries[n].kind = "dir" } }

\* C15: when find_graphql_files returns its list, the list holds every
\* `*.graphql` file under the directory, each once and flagged modified
\* exactly when its modification time is newer than that of the output
\* artifact, and the overall flag is true exactly when a listed file is
\* flagged (so one newer file among older ones gives modified and that
\* file alone flagged, and all files older gives not modified and none).
C15_ModifiedFiles ==
    fresult.st = "Ok" =>
        /\ { files[k].path : k \in 1..Len(files) }
             = { e.path : e \in GraphqlUnder(fs.root) }
        /\ Len(files) = Cardinality(GraphqlUnder(fs.root))
        /\ \A k \in 1..Len(files) :
              \A e \in GraphqlUnder(fs.root) :
                  e.path = files[k].path =>
                      (files[k].modified <=> e.mtime > fs.output.mtime)
        /\ fresult.modified <=> \E e \in GraphqlUnder(fs.root) :
                                    e.mtime > fs.output.mtime

(***************************************************************************)
(* The classification of a selection, checked under SpecGen on every type  *)
(* of the schema with every selection of the document.                     *)
(***************************************************************************)
RECURSIVE SelectionsIn(_)
\* A selection and the selections below it, the empty ones of the fields
\* without a selection too.
SelectionsIn(fields) ==
    {fields}
    \cup UNION { IF fields[k].f = "Fragment" THEN {}
                 ELSE SelectionsIn(fields[k].fields) : k \in 1..Len(fields) }

SelectionsOf(doc) ==
    UNION { SelectionsIn(doc.fragments[k].fields) :
              k \in 1..Len(doc.fragments) }
    \cup UNION { SelectionsIn(doc.queries[k].fields) :
                   k \in 1..Len(doc.queries) }
    \cup UNION { SelectionsIn(doc.mutations[k].fields) :
                   k \in 1..Len(doc.mutations) }

TypesOf(sch) == { sch.types[n] : n \in DOMAIN sch.types }

\* The cases that apply to a pair by the stated precedence.
SoleSpread(fields) == Len(fields) = 1 /\ fields[1].f = "Fragment"
NoPlainField(fields) ==
    ~ \E k \in 1..Len(fields) : fields[k].f = "PlainField"
StatedCases(named, fields) ==
    { c \in {"SoleFragment", "InterfaceOnlyFragments", "Interface", "Regular"} :
        CASE c = "SoleFragment" -> SoleSpread(fields)
          [] c = "InterfaceOnlyFragments" ->
                /\ ~SoleSpread(fields)
                /\ named.kind = "Interface" /\ NoPlainField(fields)
          [] c = "Interface" ->
                /\ ~SoleSpread(fields)
                /\ named.kind = "Interface" /\ ~NoPlainField(fields)
          [] c = "Regular" ->
                ~SoleSpread(fields) /\ named.kind # "Interface" }

\* C16: the classification of a (governing type, selection) pair is total
\* and follows the precedence SoleFragment, InterfaceOnlyFragments,
\* Interface, Regular: the case anaylze gives is the one case that applies.
C16_Classification ==
    gresult # "idle" =>
        \A named \in TypesOf(schema) :
            \A fields \in SelectionsOf(document) :
                StatedCases(named, fields) = {anaylze(named, fields)}

\* gen has returned on a document with a selection of each case, the sole
\* spread and the spreads alone on the Interface.
C16_Witness ==
    /\ gresult = "Ok"
    /\ \E fields \in SelectionsOf(document) :
          anaylze(get(schema, "Node"), fields) = "SoleFragment"
    /\ \E fields \in SelectionsOf(document) :
          anaylze(get(schema, "Node"), fields) = "InterfaceOnlyFragments"
    /\ \E fields \in SelectionsOf(document) :
          /\ anaylze(get(schema, "Node"), fields) = "Interface"
          /\ anaylze(get(schema, "User"), fields) = "Regular"

(***************************************************************************)
(* The nested types of a rendered selection, checked under SpecGen.        *)
(***************************************************************************)
RECURSIVE RenderedBelow(_, _, _)
\* A selection with the type that governs it and, when it is Regular or
\* Interface, the selections of its plain fields that get a nested type,
\* and so on below them.
RenderedBelow(sch, named, fields) ==
    {[named |-> named, fields |-> fields]}
    \cup (IF anaylze(named, fields) \in {"Regular", "Interface"}
          THEN UNION { IF /\ fields[k].f = "PlainField"
                          /\ should_gen_nested_types(fields[k].fields)
                       THEN RenderedBelow(sch,
                                get_type_of_field(sch, named, fields[k].name),
                                fields[k].fields)
                       ELSE {} : k \in 1..Len(fields) }
          ELSE {})

RenderedAll(sch, doc) ==
    UNION { RenderedBelow(sch, Operations(sch, doc)[k].base,
                          Operations(sch, doc)[k].fields) :
              k \in 1..Len(Operations(sch, doc)) }

\* C17: when gen returns, for every Regular or Interface selection it
\* rendered and every plain field of that selection whose own selection
\* is not empty and not a sole fragment spread, the text defines a type
\* with the capitalized name of the field, wherever the field stands among
\* the inline fragments and spreads of the selection.
C17_NestedTypes ==
    gresult = "Ok" =>
        \A r \in RenderedAll(schema, LastRun.document) :
            anaylze(r.named, r.fields) \in {"Regular", "Interface"} =>
                \A k \in 1..Len(r.fields) :
                    (/\ r.fields[k].f = "PlainField"
                     /\ Len(r.fields[k].fields) > 0
                     /\ ~SoleSpread(r.fields[k].fields))
                    => swift_name(r.fields[k].name) \in TypeDefs(LastRun.src)

(***************************************************************************)
(* The selection of a plain field, checked under SpecParse: parse_plain_   *)
(* field called with the cursor after every identifier of the tokens.      *)
(***************************************************************************)
\* The index after the arguments of the field whose name ends at index i:
\* i itself when no `(` follows the name.
AfterArguments(toks, i) ==
    IF KindAt(toks, i) = "OpenParen"
    THEN parse_arguments(toks, PState(i))
    ELSE Push(PState(i), <<>>)

\* What the claim states of the field named before index i, the token at
\* index j (after its arguments) being of kind k and f what
\* parse_plain_field returned.
OptionalSelection(toks, i, j, k, f) ==
    CASE k = "OpenBracket" ->
            /\ f.st = "ok" => /\ f.i \in GSelection(toks, j)
                              /\ Len(Top(f).fields) = 0 <=> f.i = j + 2
            /\ GSelection(toks, j) # {} => f.st = "ok"
      [] k \in {"Identifier", "CloseBracket", "Spread"} ->
            /\ f.st = "ok"
            /\ f.i = j
            /\ Top(f).fields = <<>>
      [] OTHER ->
            /\ f.st = "err"
            /\ f.err.kind = "Expecting"

\* C18: after the (possibly empty) arguments of a plain field the parser
\* decides on the next token without consuming it: `{` starts a nested
\* selection, which is parsed; an identifier, `}` or `...` gives the field
\* an empty selection and leaves the cursor where it is; any other token
\* gives an Expecting error.
C18_OptionalSelection ==
    \A i \in 1..Len(tokens) :
        (/\ tokens[i].kind = "Identifier"
         /\ AfterArguments(tokens, i).st = "ok"
         /\ AfterArguments(tokens, i).i < Len(tokens))
        => OptionalSelection(tokens, i, AfterArguments(tokens, i).i,
                             KindAt(tokens, AfterArguments(tokens, i).i),
                             parse_plain_field(tokens, PState(i), "a"))

\* parse returned a Document whose first query selects a field with
\* arguments and no selection and then a field with a nested selection.
C18_Witness ==
    /\ presult = "Ok"
    /\ Len(module.queries) = 1
    /\ Len(module.queries[1].fields) = 3
    /\ module.queries[1].fields[1].f = "PlainField"
    /\ module.queries[1].fields[1].args # <<>>
    /\ module.queries[1].fields[1].fields = <<>>
    /\ module.queries[1].fields[2].f = "PlainField"
    /\ module.queries[1].fields[2].fields # <<>>

(***************************************************************************)
(* The types of the properties, checked under SpecGen.                     *)
(***************************************************************************)
RECURSIVE StatedType(_, _)
\* The rendering of a Type by the stated substitution, `leaf` being the
\* rendering of a named type: a list of the rendered element for Array,
\* no optional marker for NonNull, and `?` after every other Type.
StatedRequired(t, leaf) ==
    CASE t.t = "Array" -> "[" \o StatedType(t.of, leaf) \o "]"
      [] t.t = "Input" -> leaf
      [] OTHER -> t.t
StatedType(t, leaf) ==
    IF t.t = "NonNull" THEN StatedRequired(t.of, leaf)
    ELSE StatedRequired(t, leaf) \o "?"

\* The name a field's named type is rendered by: the name of a scalar or an
\* input object, the type of a sole spread, else the capitalized field.
LeafName(sch, named, field) ==
    IF get_named(sch, field_type(named, field.name)).kind
         \in {"InputObject", "Scalar"}
    THEN get_named(sch, field_type(named, field.name)).name
    ELSE IF SoleSpread(field.fields) THEN swift_name(field.fields[1].name)
    ELSE swift_name(field.name)

\* The properties a text declares: the name after `var ` and the pieces of
\* the type, up to the end of the line or the next declaration.
Declarations(out) ==
    { <<out[j + 1],
        TextFrom(out, j + 3, After(Where(out, {"\n", "var "}), j) - 1)>> :
        j \in { m \in Where(out, {"var "}) : out[m + 2] = " : " } }

\* The plain fields of a selection.
PlainFields(fields) ==
    { fields[k] : k \in { n \in 1..Len(fields) : fields[n].f = "PlainField" } }

\* The declaration stated for each plain field of each selection of a
\* document, under each type of the schema that has the field.
StatedDeclarations(sch, doc) ==
    UNION { UNION { { <<f.name,
                        StatedType(field_type(named, f.name),
                                   LeafName(sch, named, f))>> :
                        f \in { g \in PlainFields(fields) :
                                  g.name \in DOMAIN named.fields } } :
                    fields \in SelectionsOf(doc) } :
            named \in TypesOf(sch) }

\* The declarations that are not of plain fields: the parameters of the
\* operations, and the spreads of a selection.
OtherDeclarations(doc) ==
    UNION { { <<op.args[a].name, StatedType(op.args[a].kind, "")>> :
                a \in 1..Len(op.args) } :
            op \in { doc.queries[k] : k \in 1..Len(doc.queries) }
                   \cup { doc.mutations[k] : k \in 1..Len(doc.mutations) } }
    \cup UNION { { <<fields[k].name, swift_name(fields[k].name)>> :
                    k \in { n \in 1..Len(fields) :
                              fields[n].f = "Fragment" } } :
                fields \in SelectionsOf(doc) }

RECURSIVE RegularBelow(_, _, _)
\* A selection and, while it is Regular, the selections of its plain
\* fields that get a nested type, each with the type that governs it.
RegularBelow(sch, named, fields) ==
    {[named |-> named, fields |-> fields]}
    \cup (IF anaylze(named, fields) = "Regular"
          THEN UNION { RegularBelow(sch,
                           get_type_of_field(sch, named, f.name), f.fields) :
                       f \in { g \in PlainFields(fields) :
                                 should_gen_nested_types(g.fields) } }
          ELSE {})

\* The selections of the operations of a document, with what RegularBelow
\* finds under them.
RegularAll(sch, doc) ==
    UNION { RegularBelow(sch, Operations(sch, doc)[k].base,
                         Operations(sch, doc)[k].fields) :
            k \in 1..Len(Operations(sch, doc)) }

\* C19: the type of a property is rendered by structural substitution: a
\* list of the rendered element for Array, no optional marker for NonNull,
\* and `?` after every Type that NonNull does not wrap, the element of a
\* list included.  Every property the text declares is one so rendered,
\* and every plain field of a selection rendered as a structure has its
\* declaration.
C19_TypeSubstitution ==
    gresult = "Ok" =>
        /\ Declarations(LastRun.src)
             \subseteq (StatedDeclarations(schema, document)
                        \cup OtherDeclarations(document))
        /\ \A r \in RegularAll(schema, document) :
              anaylze(r.named, r.fields) \in {"Regular", "Interface"}
              => \A f \in PlainFields(r.fields) :
                    <<f.name,
                      StatedType(field_type(r.named, f.name),
                                 LeafName(schema, r.named, f))>>
                       \in Declarations(LastRun.src)

\* A returned gen whose text declares a nullable list of required
\* strings, a required list of nullable users, and a list of lists.
C19_Witness ==
    /\ gresult = "Ok"
    /\ schema = SchemaLists
    /\ {<<"tags", "[String]?">>, <<"friends", "[Friends?]">>,
        <<"grid", "[[Int?]?]?">>, <<"id", "[Int]?">>}
         \subseteq Declarations(LastRun.src)

(***************************************************************************)
(* The indentation counter and the buffer of a run, checked under SpecGen. *)
(***************************************************************************)
\* The statements a sequence executes: those before its first panic.
Executed(cmds) ==
    IF \E k \in 1..Len(cmds) : cmds[k].c = "panic"
    THEN SubSeq(cmds, 1,
                (CHOOSE k \in 1..Len(cmds) :
                    /\ cmds[k].c = "panic"
                    /\ \A m \in 1..(k - 1) : cmds[m].c # "panic") - 1)
    ELSE cmds

RECURSIVE Profile(_, _, _)
\* Of the statements cmds[lo..hi]: `net`, the calls of indent() less the
\* calls of unindent(), and `low`, the least of that difference over the
\* prefixes of the statements.
Profile(cmds, lo, hi) ==
    IF lo > hi THEN [net |-> 0, low |-> 0]
    ELSE IF lo = hi
    THEN CASE cmds[lo].c = "indent" -> [net |-> 1, low |-> 0]
           [] cmds[lo].c = "unindent" -> [net |-> -1, low |-> -1]
           [] OTHER -> [net |-> 0, low |-> 0]
    ELSE LET l == Profile(cmds, lo, (lo + hi) \div 2)
             r == Profile(cmds, (lo + hi) \div 2 + 1, hi)
         IN  [net |-> l.net + r.net, low |-> Min(l.low, l.net + r.low)]

\* Every unindent() of the statements executed follows an indent() not yet
\* undone, and statements that run to their end undo every indent().
Balanced(cmds) ==
    LET p == Profile(Executed(cmds), 1, Len(Executed(cmds)))
    IN  /\ p.low >= 0
        /\ Executed(cmds) = cmds => p.net = 0

\* The statements of the fragment, query or mutation gen renders next, for
\* each order of iteration of its set of fragment names.
NextCommands ==
    CASE gphase = "fragments" /\ gindex < Len(document.fragments) ->
            { gen_fragment(schema, document.fragments[gindex + 1], iter) :
                iter \in IterOrders(
                    find_fragments(document.fragments[gindex + 1].fields)) }
      [] gphase = "queries" /\ gindex < Len(document.queries) ->
            { gen_api_for(schema, "query", query_root(schema),
                          document.queries[gindex + 1].name,
                          document.queries[gindex + 1].args,
                          document.queries[gindex + 1].fields, iter) :
                iter \in IterOrders(
                    find_fragments(document.queries[gindex + 1].fields)) }
      [] gphase = "mutations" /\ gindex < Len(document.mutations) ->
            { gen_api_for(schema, "mutation", mutation_root(schema),
                          document.mutations[gindex + 1].name,
                          document.mutations[gindex + 1].args,
                          document.mutations[gindex + 1].fields, iter) :
                iter \in IterOrders(
                    find_fragments(document.mutations[gindex + 1].fields)) }
      [] OTHER -> {}

\* The text `before` is the start of the text `longer`.
Extends(before, longer) ==
    /\ Len(before) <= Len(longer)
    /\ SubSeq(longer, 1, Len(before)) = before

\* C21: during a run the indentation counter never goes below zero, each
\* unindent() following an indent() not yet undone; it is zero after each
\* top-level fragment, query and mutation has been rendered and when gen
\* returns; and the buffer only grows, what a step finds appended staying
\* as the start of what it leaves.
C21_IndentAndBuffer ==
    [][/\ (gresult = "none" /\ codegen' # codegen) =>
            /\ \E cmds \in NextCommands : codegen' = Run(codegen, cmds)
            /\ \A cmds \in NextCommands : Balanced(cmds)
            /\ Extends(codegen.src, codegen'.src)
            /\ codegen'.st = "ok" => codegen'.indent = 0
       /\ gresult' = "Ok" =>
            /\ codegen'.indent = 0
            /\ outs'[Len(outs')].src = codegen'.src]_vars

\* A returned gen that rendered a fragment, a query and a mutation, with
\* lines three levels deep.
C21_Witness ==
    /\ gresult = "Ok"
    /\ Len(document.fragments) > 0
    /\ Len(document.queries) > 0
    /\ Len(document.mutations) > 0
    /\ \E j \in 1..(Len(codegen.src) - 3) :
          /\ codegen.src[j] = "\n"
          /\ \A n \in 1..3 : codegen.src[j + n] = "    "

(***************************************************************************)
(* The root types, checked under SpecGen.                                  *)
(***************************************************************************)
\* C22: a root type is needed only when an operation of its kind is
\* rendered: gen does not fail at gen_queries on a document with no
\* queries, nor at gen_mutations on a document with no mutations, whatever
\* the catalog holds under the name of the root.
C22_RootsOnDemand ==
    /\ (gphase = "queries" /\ Len(document.queries) = 0)
          => gresult # "panic"
    /\ (gphase = "mutations" /\ Len(document.mutations) = 0)
          => gresult # "panic"

(***************************************************************************)
(* SpecFront: lex and then parse, on sources whose fields have arguments:  *)
(* the steps of lex, then parse on the tokens lex returned.                *)
(***************************************************************************)
FrontInputs ==
    {
      \* `query a{a(b:true)}`
      <<"q", "u", "e", "r", "y", " ", "a", "{", "a", "(", "b", ":", "t",
        "r", "u", "e", ")", "}">>,
      \* `query a{a(b:false)}`
      <<"q", "u", "e", "r", "y", " ", "a", "{", "a", "(", "b", ":", "f",
        "a", "l", "s", "e", ")", "}">>,
      \* `query a{a(b:12)}`
      <<"q", "u", "e", "r", "y", " ", "a", "{", "a", "(", "b", ":", "1",
        "2", ")", "}">>,
      \* `query a{a(b:$v)}`
      <<"q", "u", "e", "r", "y", " ", "a", "{", "a", "(", "b", ":", "$",
        "v", ")", "}">>,
      \* `query a{a(b:1,c:true)}`
      <<"q", "u", "e", "r", "y", " ", "a", "{", "a", "(", "b", ":", "1",
        ",", "c", ":", "t", "r", "u", "e", ")", "}">>,
      \* `query a {\n a(b:false c:$v) ...f\n}`
      <<"q", "u", "e", "r", "y", " ", "a", " ", "{", "\n", " ", "a",
        "(", "b", ":", "f", "a", "l", "s", "e", " ", "c", ":", "$", "v",
        ")", " ", ".", ".", ".", "f", "\n", "}">>,
      \* `mutation m{a(b:7){c(d:true)}}`
      <<"m", "u", "t", "a", "t", "i", "o", "n", " ", "m", "{", "a", "(",
        "b", ":", "7", ")", "{", "c", "(", "d", ":", "t", "r", "u", "e",
        ")", "}", "}">>,
      \* `query a{a(b:$v,c:3) d}`
      <<"q", "u", "e", "r", "y", " ", "a", "{", "a", "(", "b", ":", "$",
        "v", ",", "c", ":", "3", ")", " ", "d", "}">>,
      \* `fragment f on T{a(b:false){c}}`
      <<"f", "r", "a", "g", "m", "e", "n", "t", " ", "f", " ", "o", "n",
        " ", "T", "{", "a", "(", "b", ":", "f", "a", "l", "s", "e", ")",
        "{", "c", "}", "}">>,
      \* `query a{a(b:#)}`
      <<"q", "u", "e", "r", "y", " ", "a", "{", "a", "(", "b", ":", "#",
        ")", "}">> }

\* parse(tokens): Parser{ module: GraphQL{..}, tokens, i: 0 }, on Ok(tokens)
\* of lex.
ParseOpen ==
    /\ lresult = "Ok"
    /\ presult = "idle"
    /\ tokens' = ltokens
    /\ cursor' = 0
    /\ module' = EmptyModule
    /\ presult' = "none"
    /\ perror' = NoError
    /\ UNCHANGED <<lexvars, genvars, loadvars, filevars>>

InitFront ==
    /\ src \in FrontInputs
    /\ src_it = [i |-> 0, column |-> 0, line |-> 0]
    /\ tok = [tok_slice |-> 0, tok_len |-> 1]
    /\ ltokens = <<>>
    /\ lresult = "none"
    /\ lerror = NoError
    /\ ParseIdle
    /\ GenIdle
    /\ LoadIdle
    /\ FileIdle

NextFront ==
    \/ LexSkip
    \/ LexNewline
    \/ LexPunct
    \/ LexSpread
    \/ LexNumber
    \/ LexVariable
    \/ LexIdentifier
    \/ LexUnexpected
    \/ LexReturn
    \/ ParseOpen
    \/ ParseToplevel
    \/ ParseReturn

SpecFront == InitFront /\ [][NextFront]_vars

\* Where the tokens write the argument of a field: its name, a `:`, and a
\* literal or a variable.
WrittenArguments(toks) ==
    { i \in 1..(Len(toks) - 2) :
        /\ toks[i].kind = "Identifier"
        /\ toks[i + 1].kind = "Colon"
        /\ \/ toks[i + 2].kind \in {"Int", "Variable"}
           \/ /\ toks[i + 2].kind = "Identifier"
              /\ toks[i + 2].val \in {"true", "false"} }

\* The kind of Value a written value is stated to give, and what it holds.
StatedKind(t) ==
    CASE t.kind = "Int" -> "Int"
      [] t.kind = "Variable" -> "Variable"
      [] OTHER -> "Bool"
StatedHeld(t) ==
    CASE t.kind = "Identifier" -> (t.val = "true")
      [] OTHER -> t.val

\* parse returned Ok, and the module holds, for each argument written with
\* a value of one of the kinds, an Argument of its name with the Value
\* stated for what is written.
ValuesParsed(kinds) ==
    \A i \in WrittenArguments(tokens) :
        StatedKind(tokens[i + 2]) \in kinds =>
            /\ presult = "Ok"
            /\ \E a \in ArgumentsOf(module) :
                  /\ a.name = tokens[i].val
                  /\ a.value.v = StatedKind(tokens[i + 2])
                  /\ a.value.val = StatedHeld(tokens[i + 2])

\* C23: lexing and then parsing a field argument written `name: true` or
\* `name: false` gives an Argument whose value is Value::Bool of that
\* boolean, as an integer literal gives Value::Int and a `$name` token
\* gives Value::Variable.
C23_ValuesFromSource ==
    (lresult = "Ok" /\ presult \in {"Ok", "Err", "panic"})
        => ValuesParsed({"Bool", "Int", "Variable"})

====
